---- MODULE Spec2Model ----
(***************************************************************************)
(* VeriMeet: the meeting agent (agent.py) with the analysis modules it     *)
(* drives (core/fact_checker.py, core/intent_parser.py,                    *)
(* core/summarizer.py) and the outcomes of the external adapters (mcp/).   *)
(*                                                                         *)
(* Texts are modelled by short strings.  The empty string and NoneVal are  *)
(* the two falsy texts of the Python code.  The k-th element the language  *)
(* model returns in a run carries the text "c<k>" (a fact's claim) or      *)
(* "a<k>" (an intent's action), so that the order of detection can be read *)
(* off the stored records.                                                 *)
(*                                                                         *)
(* process_transcript is synchronous code: its steps are taken in the      *)
(* order of the source under the control state pc, and no other operation  *)
(* of the agent is enabled between two of its steps.                       *)
(***************************************************************************)
EXTENDS Integers, Sequences, FiniteSets, TLC

\* ---------------------------------------------------------------- bounds
\* process_transcript calls in one run
MaxSegments == 2
\* elements in one answer of the language model
MaxLen == 2
\* elements the language model returns over one run
MaxItems == 2

\* the longest date text, in words
MaxWords == 3

\* ------------------------------------------------------------ input sets
NoneVal == "None"

BotIds == {"b1", "b2"}

BotIdArgs == BotIds \cup {NoneVal}

Titles == {NoneVal, "Weekly sync"}

\* what an element of the detector's "facts" list can be: not an object, an
\* object whose claim is empty or missing, an object with a claim
FactShapes == {"nonobj", "noclaim", "claim"}

Types == {"schedule", "email", "other"}

\* NoneVal: the key is missing; "certain": a value outside the prompt's three
Confidences == {"high", "medium", "low", NoneVal, "certain"}

Dates == {"", "tomorrow"}

Times == {"", "14:00"}

Topics == {"review"}

\* shapes of the payload the language model answers with: the call fails,
\* the text is not JSON, a bare list, an object holding the list under the
\* designated key, an object without that key, an object whose value under
\* the key is not a list, a scalar
PayloadShapes ==
    {"raise", "unparseable", "list", "object", "nokey", "notlist", "scalar"}

\* the shapes that carry a list of elements
ListShapes == {"list", "object"}

\* a truthiness test that lets None and "" pass
TruthyAlways(s) == TRUE

\* Python truthiness of a text (None and "" are falsy)
Truthy(s) == s # NoneVal /\ s # ""

ClaimText(k) == "c" \o ToString(k)

ActionText(k) == "a" \o ToString(k)

\* the text of the n-th segment of a run
SegmentText(n) == "t" \o ToString(n)

\* the position in the run of the element that carried this text
TagOf(text) ==
    CHOOSE k \in 0..(MaxItems + 1) :
        \/ (k > 0 /\ (text = ClaimText(k) \/ text = ActionText(k)))
        \/ (k = 0 /\ \A j \in 1..(MaxItems + 1) :
                        text # ClaimText(j) /\ text # ActionText(j))

\* ------------------------------------------------------------ fact checker
MkFact(shape, k) ==
    [obj     |-> shape # "nonobj",
     claim   |-> IF shape = "claim" THEN ClaimText(k) ELSE "",
     context |-> IF shape = "nonobj" THEN NoneVal ELSE "ctx"]

\* detect_factual_statements taking the list only from an object
detect_factual_statements_object_only(payload) ==
    IF payload.shape = "object" THEN payload.items ELSE <<>>

\* the result of FactChecker.detect_factual_statements for a payload: the
\* except branch gives [] for a failed call and for text json.loads
\* rejects; otherwise facts is the value under "facts" of an object, the
\* payload itself when it is a list, else []; a facts that is not a list
\* gives []
detect_factual_statements(payload) ==
    IF payload.shape \in {"raise", "unparseable"}
    THEN <<>>
    ELSE LET facts ==
                 CASE payload.shape \in {"object", "notlist"} ->
                        [is_list |-> payload.shape = "object",
                         items |-> payload.items]
                   [] payload.shape = "list" ->
                        [is_list |-> TRUE, items |-> payload.items]
                   [] OTHER -> [is_list |-> TRUE, items |-> <<>>]
         IN  IF facts.is_list THEN facts.items ELSE <<>>

\* the three results verify_fact can return
\* (a source is its title, the length of its snippet and its url; a text
\* key the result does not carry reads NoneVal, a missing "verified" reads
\* FALSE and a missing list is empty)
Source(title, snippet, url) ==
    [title |-> title, snippet |-> snippet, url |-> url]

VerifyFailed ==
    [success |-> FALSE, verified |-> FALSE, confidence |-> NoneVal,
     sources |-> <<>>, error |-> "search failed"]

VerifyNoResults ==
    [success |-> TRUE, verified |-> FALSE, confidence |-> "low",
     sources |-> <<>>, error |-> NoneVal]

VerifyTopResult ==
    [success |-> TRUE, verified |-> TRUE, confidence |-> "medium",
     sources |-> <<Source("T1", 200, "https://s/1")>>, error |-> NoneVal]

VerifyOutcomes == {VerifyFailed, VerifyNoResults, VerifyTopResult}

\* the snippet is cut to this many characters
SnippetCut == 150

\* the part of the message that quotes a source: title, snippet (by its
\* length) and the line with the url, if there is one
SourcePart(present, title, snippet, url_line) ==
    [present |-> present, title |-> title, snippet |-> snippet,
     url_line |-> url_line]

NoSourcePart == SourcePart(FALSE, NoneVal, 0, NoneVal)

\* the source part with the snippet quoted in full
quote_source_uncut(top_source) ==
    SourcePart(TRUE, top_source.title, top_source.snippet,
               IF Truthy(top_source.url) THEN top_source.url ELSE NoneVal)

\* lines 103-107: the part of the message made from sources[0]
quote_source(top_source) ==
    SourcePart(TRUE, top_source.title,
               IF top_source.snippet < SnippetCut THEN top_source.snippet
               ELSE SnippetCut,
               IF Truthy(top_source.url) THEN top_source.url ELSE NoneVal)

\* FactChecker.format_fact_check_message: the message by its parts
format_fact_check_message(claim, v) ==
    IF ~v.success
    THEN [kind |-> "unable_to_verify", claim |-> claim, status |-> NoneVal,
          confidence |-> NoneVal, source |-> NoSourcePart,
          error |-> IF v.error = NoneVal THEN "Unknown error" ELSE v.error]
    ELSE [kind |-> "fact_check", claim |-> claim,
          status |-> IF v.verified THEN "VERIFIED"
                     ELSE "NEEDS VERIFICATION",
          confidence |-> IF v.confidence = NoneVal THEN "unknown"
                         ELSE v.confidence,
          source |-> IF v.sources # <<>> THEN quote_source(v.sources[1])
                     ELSE NoSourcePart,
          error |-> NoneVal]

\* one external call of the log: the function, its arguments, whether its
\* result reported success
Call(fn, a, ok) == [fn |-> fn, a |-> a, ok |-> ok]

send_chat_message(bot, message, ok) ==
    Call("send_chat_message", [bot_id |-> bot, message |-> message], ok)

\* the record process_transcript stores for a verified fact
VerifiedFact(fact, v) ==
    [claim |-> fact.claim, context |-> fact.context, verification |-> v]

\* appending with the new record put in front
PrependRecord(list, rec) == <<rec>> \o list

\* what appending a record to a list of the agent does
AppendRecord(list, rec) == Append(list, rec)

\* check_fact with the record stored only after a successful chat post
check_fact_chat_gated(fact, bot, vfacts, v, chat_ok) ==
    IF ~fact.obj
    THEN [raised |-> TRUE, calls |-> <<>>, verified_facts |-> vfacts]
    ELSE IF ~Truthy(fact.claim)
    THEN [raised |-> FALSE, calls |-> <<>>, verified_facts |-> vfacts]
    ELSE
      LET verify == Call("verify_fact",
                         [claim |-> fact.claim, context |-> fact.context,
                          result |-> v], v.success)
          msg == format_fact_check_message(fact.claim, v)
      IN  IF ~v.success
          THEN [raised |-> FALSE, calls |-> <<verify>>,
                verified_facts |-> vfacts]
          ELSE IF ~Truthy(bot)
          THEN [raised |-> FALSE, calls |-> <<verify>>,
                verified_facts |-> vfacts]
          ELSE [raised |-> FALSE,
                calls |-> <<verify, send_chat_message(bot, msg, chat_ok)>>,
                verified_facts |->
                    IF chat_ok
                    THEN AppendRecord(vfacts, VerifiedFact(fact, v))
                    ELSE vfacts]

\* One iteration of the loop over the detected facts: whether it raised, the
\* external calls it made, and verified_facts after it.
check_fact(fact, bot, vfacts, v, chat_ok) ==
    IF ~fact.obj
    THEN [raised |-> TRUE, calls |-> <<>>, verified_facts |-> vfacts]
    ELSE IF ~Truthy(fact.claim)
    THEN [raised |-> FALSE, calls |-> <<>>, verified_facts |-> vfacts]
    ELSE
      LET verify == Call("verify_fact",
                         [claim |-> fact.claim, context |-> fact.context,
                          result |-> v], v.success)
      IN  IF ~v.success
          THEN [raised |-> FALSE, calls |-> <<verify>>,
                verified_facts |-> vfacts]
          ELSE
            LET msg == format_fact_check_message(fact.claim, v)
                chat == IF Truthy(bot)
                        THEN <<send_chat_message(bot, msg, chat_ok)>>
                        ELSE <<>>
            IN  [raised |-> FALSE, calls |-> <<verify>> \o chat,
                 verified_facts |-> AppendRecord(vfacts, VerifiedFact(fact, v))]

\* ----------------------------------------------------------- intent parser
\* the value of an intent's "details": the key missing, not a mapping, or a
\* mapping (a missing topic, date or time reads as "", has_recipients tells
\* whether the "recipients" key is there)
Details(kind, topic, date, time, has_recipients, recipients) ==
    [kind |-> kind, topic |-> topic, date |-> date, time |-> time,
     has_recipients |-> has_recipients, recipients |-> recipients]

NoDetails == Details("absent", "", "", "", FALSE, <<>>)

BadDetails == Details("bad", "", "", "", FALSE, <<>>)

ScheduleDetails ==
    {Details("obj", tp, d, t, FALSE, <<>>) :
        tp \in Topics, d \in Dates, t \in Times}

EmailDetails ==
    {NoDetails, BadDetails,
     Details("obj", "", "", "", FALSE, <<>>),
     Details("obj", "", "", "", TRUE, <<>>),
     Details("obj", "", "", "", TRUE, <<"r1@x.org">>)}

DetailsFor(type) ==
    CASE type = "schedule" -> ScheduleDetails \cup {BadDetails}
      [] type = "email" -> EmailDetails
      [] OTHER -> {NoDetails}

\* the value of an intent's "parsed_datetime": the key missing, None, or the
\* mapping _parse_datetime built (date and time are NoneVal when not resolved)
Parsed(kind, raw_date, raw_time, date, time) ==
    [kind |-> kind, raw_date |-> raw_date, raw_time |-> raw_time,
     date |-> date, time |-> time]

NoParsed == Parsed("absent", "", "", NoneVal, NoneVal)

ParsedNone == Parsed("none", "", "", NoneVal, NoneVal)

\* the shapes of one element of the "intents" list
IntentShapes ==
    {[obj |-> FALSE, type |-> NoneVal, confidence |-> NoneVal,
      details |-> NoDetails]}
    \cup {[obj |-> TRUE, type |-> ty, confidence |-> c, details |-> d] :
            ty \in {"other"}, c \in Confidences, d \in DetailsFor("other")}
    \cup {[obj |-> TRUE, type |-> ty, confidence |-> c, details |-> d] :
            ty \in {"email"}, c \in Confidences, d \in DetailsFor("email")}
    \cup {[obj |-> TRUE, type |-> ty, confidence |-> c, details |-> d] :
            ty \in {"schedule"}, c \in Confidences,
            d \in DetailsFor("schedule")}

MkIntent(shape, k) ==
    [obj |-> shape.obj, type |-> shape.type, confidence |-> shape.confidence,
     action |-> ActionText(k), details |-> shape.details,
     context |-> "said in the meeting", parsed_datetime |-> NoParsed]

\* ---- the relative-date keywords of _parse_datetime
\* today.weekday(): Monday is 0, Friday 4, Sunday 6
Weekdays == 0..6

\* the weekdays of the days on which segments are processed: a Monday and a
\* Friday
RunDays == {0, 4}

\* A date text is a run of words separated by blanks.
Words == {"tomorrow", "Tomorrow", "next", "week", "friday", "Friday", "on"}

WordLists == UNION {[1..n -> Words] : n \in 0..MaxWords}

RECURSIVE DateText(_)
DateText(ws) ==
    IF ws = <<>> THEN ""
    ELSE IF Len(ws) = 1 THEN ws[1]
    ELSE ws[1] \o " " \o DateText(Tail(ws))

\* the date texts of the model, each with the words it is made of
DateTable == {[text |-> DateText(ws), words |-> ws] : ws \in WordLists}

\* the words of a date text
words_of(date_str) == (CHOOSE e \in DateTable : e.text = date_str).words

\* str.lower() of a word
Lower(word) ==
    CASE word = "Tomorrow" -> "tomorrow"
      [] word = "Friday" -> "friday"
      [] OTHER -> word

\* date_str.lower() if date_str else "", as the words of the text
date_lower(date_str) ==
    IF Truthy(date_str) /\ \E e \in DateTable : e.text = date_str
    THEN [i \in 1..Len(words_of(date_str)) |-> Lower(words_of(date_str)[i])]
    ELSE <<>>

\* keyword in date_lower
contains(ws, keyword) ==
    \E i \in 1..(Len(ws) + 1 - Len(keyword)) :
        SubSeq(ws, i, i + Len(keyword) - 1) = keyword

\* (today + timedelta(days=n)).strftime("%Y-%m-%d")
DayText(n) == "<today+" \o ToString(n) \o ">"

\* the days to the next Friday without the step from 0 to 7
days_to_friday_same_day(today) == (4 - today) % 7

\* lines 137-141: the days to the next Friday
days_to_friday(today) ==
    IF (4 - today) % 7 = 0 THEN 7 ELSE (4 - today) % 7

\* lines 125-142: the date _parse_datetime resolves from details.date on a
\* day whose weekday is today, or None
parse_date(date_str, today) ==
    LET dl == date_lower(date_str)
    IN  IF contains(dl, <<"tomorrow">>)
        THEN DayText(1)
        ELSE IF contains(dl, <<"next", "week">>)
        THEN DayText(7 - today)
        ELSE IF \/ contains(dl, <<"next", "friday">>)
                \/ contains(dl, <<"friday">>)
        THEN DayText(days_to_friday(today))
        ELSE NoneVal

\* ---- the time pattern of _parse_datetime
\* The texts of the form hour[:minute][am|pm] are built from their parts;
\* the period may be written in capitals and after a blank.
Hours == 0..24

Minutes == {0, 5, 30, 59, 75}

PeriodTexts == {"", "am", "pm", " PM", " AM"}

\* f"{n:02d}"
Pad2(n) == IF n < 10 THEN "0" \o ToString(n) ELSE ToString(n)

\* the parts of a time text: the hour, whether ":minute" is written and the
\* minute, the period as written
TimeParts == [hour : Hours, has_minute : BOOLEAN, minute : Minutes,
              ptext : PeriodTexts]

TimeText(parts) ==
    ToString(parts.hour)
    \o (IF parts.has_minute THEN ":" \o Pad2(parts.minute) ELSE "")
    \o parts.ptext

\* what group 3 of the pattern holds on the lower-cased text
period_of(ptext) ==
    CASE ptext \in {"am", " AM"} -> "am"
      [] ptext \in {"pm", " PM"} -> "pm"
      [] OTHER -> NoneVal

\* the time texts of the model, each with the parts it is made of
TimeTable ==
    {[text |-> TimeText(parts), parts |-> parts] :
        parts \in {q \in TimeParts : q.has_minute \/ q.minute = 0}}

\* re.search(r'(\d{1,2}):?(\d{2})?\s*(am|pm)?', time_str.lower()): the
\* groups of the match, or no match (a text without a digit)
time_match(time_str) ==
    IF \E e \in TimeTable : e.text = time_str
    THEN LET parts == (CHOOSE e \in TimeTable : e.text = time_str).parts
         IN  [matched |-> TRUE,
              hour |-> parts.hour,
              has_minute |-> parts.has_minute,
              minute |-> parts.minute,
              period |-> period_of(parts.ptext)]
    ELSE [matched |-> FALSE, hour |-> 0, has_minute |-> FALSE, minute |-> 0,
          period |-> NoneVal]

\* the conversion with 'pm' adding 12 to every hour
to_24_hour_pm_adds(hour, period) ==
    IF period = "pm" THEN hour + 12
    ELSE IF period = "am" /\ hour = 12 THEN 0
    ELSE hour

\* lines 153-156: the hour of the 24-hour clock
to_24_hour(hour, period) ==
    IF period = "pm" /\ hour # 12 THEN hour + 12
    ELSE IF period = "am" /\ hour = 12 THEN 0
    ELSE hour

\* lines 145-158: the time _parse_datetime resolves from details.time, or
\* None
parse_time(time_str) ==
    IF ~Truthy(time_str)
    THEN NoneVal
    ELSE LET m == time_match(time_str)
         IN  IF m.matched
             THEN Pad2(to_24_hour(m.hour, m.period)) \o ":"
                  \o Pad2(IF m.has_minute THEN m.minute ELSE 0)
             ELSE NoneVal

\* _parse_datetime returning its record whenever a raw string is present
parse_datetime_keeps_raw(details, today) ==
    IF ~Truthy(details.date) /\ ~Truthy(details.time)
    THEN ParsedNone
    ELSE Parsed("dict", details.date, details.time,
                parse_date(details.date, today), parse_time(details.time))

\* _parse_datetime, lines 104-160
parse_datetime(details, today) ==
    IF ~Truthy(details.date) /\ ~Truthy(details.time)
    THEN ParsedNone
    ELSE LET d == parse_date(details.date, today)
             t == IF Truthy(details.time) THEN parse_time(details.time)
                  ELSE NoneVal
         IN  IF Truthy(d) \/ Truthy(t)
             THEN Parsed("dict", details.date, details.time, d, t)
             ELSE ParsedNone

\* the result of IntentParser.detect_intents for a payload: the "intents"
\* list of an object, each schedule intent enhanced with parsed_datetime; []
\* when the call failed, when the payload is a bare list (parsed.get
\* raises), when an element is not an object or a schedule intent's details
\* are not a mapping (.get raises inside the try)
detect_intents(payload, today) ==
    IF payload.shape # "object"
    THEN <<>>
    ELSE IF \E i \in 1..Len(payload.items) :
               \/ ~payload.items[i].obj
               \/ /\ payload.items[i].type = "schedule"
                  /\ payload.items[i].details.kind = "bad"
    THEN <<>>
    ELSE [i \in 1..Len(payload.items) |->
            IF payload.items[i].type = "schedule"
            THEN [payload.items[i] EXCEPT
                    !.parsed_datetime =
                        parse_datetime(payload.items[i].details, today)]
            ELSE payload.items[i]]

\* ------------------------------------------------------- external adapters
\* how an adapter's own call ends: no credential configured, the request
\* fails, the request succeeds
ExtEnv == {"unconfigured", "error", "ok"}

IsoDates == {DayText(n) : n \in 1..7}

IsoTimes == {"14:00"}

\* create_calendar_event reports success only when the token is configured,
\* date and time (defaulted when falsy) parse as ISO and the request succeeds
create_calendar_event(title, date, time, description, env) ==
    Call("create_calendar_event",
         [title |-> title, date |-> date, time |-> time,
          description |-> description],
         /\ env = "ok"
         /\ (~Truthy(date) \/ date \in IsoDates)
         /\ (~Truthy(time) \/ time \in IsoTimes))

send_email_summary(recipients, summary, verified_facts, env) ==
    Call("send_email_summary",
         [recipients |-> recipients, summary |-> summary,
          verified_facts |-> verified_facts],
         env = "ok")

\* the modules mcp/calendar_mcp.py and mcp/gmail_mcp.py are part of the
\* repository and import what agent.py's own imports already need, so the
\* local imports of the handlers succeed
CalendarImportable == TRUE

GmailImportable == TRUE

\* -------------------------------------------------------------- summarizer
\* A summary is modelled by what it was made from.
NoSummary == [kind |-> "none", of |-> <<>>]

FailureMarker == "Summary generation failed"

SummaryTruthy(s) == s.kind # "none"

\* a text that is the email's placeholder whatever the summary
SummaryTextPlaceholder(s) == <<"Meeting summary not yet available.">>

\* the text of a summary as it enters a prompt or an email
SummaryText(s) == IF s.kind = "failed" THEN <<FailureMarker>> ELSE s.of

\* summarize handing back the previous summary when the call fails
summarize_keeps_previous(transcript, previous_summary, ok) ==
    IF ok
    THEN [kind |-> "text",
          of |-> (IF SummaryTruthy(previous_summary)
                  THEN SummaryText(previous_summary) ELSE <<>>)
                 \o <<transcript>>]
    ELSE previous_summary

summarize(transcript, previous_summary, ok) ==
    IF ok
    THEN [kind |-> "text",
          of |-> (IF SummaryTruthy(previous_summary)
                  THEN SummaryText(previous_summary) ELSE <<>>)
                 \o <<transcript>>]
    ELSE [kind |-> "failed", of |-> <<>>]

\* the length of the text a summary stands for, in the model's units
SummaryLength(s) == Len(SummaryText(s))

\* the prompt's rendering of the verified facts: claim and
\* fact.get('verification_status', 'N/A')
PromptFacts(verified_facts) ==
    [i \in 1..Len(verified_facts) |->
        [claim |-> verified_facts[i].claim, status |-> "N/A"]]

finalize_summary(all_transcripts, verified_facts, ok) ==
    IF ok
    THEN [kind |-> "final", transcripts |-> all_transcripts,
          facts |-> PromptFacts(verified_facts)]
    ELSE [kind |-> "final_failed", transcripts |-> <<>>, facts |-> <<>>]

\* _handle_schedule_intent posting its confirmation whatever the calendar
\* call reported
handle_schedule_intent_always_confirms(intent, bot, env) ==
    IF ~CalendarImportable \/ intent.details.kind = "bad"
    THEN [swallowed |-> intent.details.kind = "bad", calls |-> <<>>]
    ELSE
      LET details == intent.details
          pd == intent.parsed_datetime
          title == IF Truthy(details.topic) THEN details.topic
                   ELSE intent.action
          raises == \/ (~Truthy(details.date) /\ pd.kind = "none")
                    \/ (~Truthy(details.time) /\ pd.kind = "none")
          date == IF Truthy(details.date) THEN details.date ELSE pd.date
          time == IF Truthy(details.time) THEN details.time ELSE pd.time
          result == create_calendar_event(title, date, time,
                                          intent.context, env)
          message == [kind |-> "calendar_created", title |-> title,
                      date |-> date, time |-> time]
      IN  IF raises
          THEN [swallowed |-> TRUE, calls |-> <<>>]
          ELSE [swallowed |-> FALSE,
                calls |-> <<result>> \o
                          (IF Truthy(bot)
                           THEN <<send_chat_message(bot, message, TRUE)>>
                           ELSE <<>>)]

\* _handle_schedule_intent preferring the values the heuristic resolved
handle_schedule_intent_prefers_parsed(intent, bot, env) ==
    IF ~CalendarImportable \/ intent.details.kind = "bad"
    THEN [swallowed |-> intent.details.kind = "bad", calls |-> <<>>]
    ELSE
      LET details == intent.details
          pd == intent.parsed_datetime
          title == IF Truthy(details.topic) THEN details.topic
                   ELSE intent.action
          raises == pd.kind = "none"
          date == IF Truthy(pd.date) THEN pd.date ELSE details.date
          time == IF Truthy(pd.time) THEN pd.time ELSE details.time
          result == create_calendar_event(title, date, time,
                                          intent.context, env)
          message == [kind |-> "calendar_created", title |-> title,
                      date |-> date, time |-> time]
      IN  IF raises
          THEN [swallowed |-> TRUE, calls |-> <<>>]
          ELSE [swallowed |-> FALSE,
                calls |-> <<result>> \o
                          (IF result.ok /\ Truthy(bot)
                           THEN <<send_chat_message(bot, message, TRUE)>>
                           ELSE <<>>)]

\* ------------------------------------------------------------------ agent
\* _handle_schedule_intent: whether an exception was raised (and swallowed)
\* inside it, and the external calls it made
handle_schedule_intent(intent, bot, env) ==
    IF ~CalendarImportable \/ intent.details.kind = "bad"
    THEN [swallowed |-> intent.details.kind = "bad", calls |-> <<>>]
    ELSE
      LET details == intent.details
          pd == intent.parsed_datetime
          title == IF Truthy(details.topic) THEN details.topic
                   ELSE intent.action
          \* .get on a parsed_datetime of None raises AttributeError
          raises == \/ (~Truthy(details.date) /\ pd.kind = "none")
                    \/ (~Truthy(details.time) /\ pd.kind = "none")
          date == IF Truthy(details.date) THEN details.date ELSE pd.date
          time == IF Truthy(details.time) THEN details.time ELSE pd.time
          result == create_calendar_event(title, date, time,
                                          intent.context, env)
          message == [kind |-> "calendar_created", title |-> title,
                      date |-> date, time |-> time]
      IN  IF raises
          THEN [swallowed |-> TRUE, calls |-> <<>>]
          ELSE [swallowed |-> FALSE,
                calls |-> <<result>> \o
                          (IF result.ok /\ Truthy(bot)
                           THEN <<send_chat_message(bot, message, TRUE)>>
                           ELSE <<>>)]

\* _handle_email_intent without the early return after the notice
handle_email_intent_no_return(intent, bot, summary, vfacts, env) ==
    IF ~GmailImportable \/ intent.details.kind = "bad"
    THEN [swallowed |-> intent.details.kind = "bad", calls |-> <<>>]
    ELSE
      LET recipients == intent.details.recipients
          result == send_email_summary(
                      recipients,
                      IF SummaryTruthy(summary) THEN SummaryText(summary)
                      ELSE <<"Meeting summary not yet available.">>,
                      vfacts, env)
          notice == IF recipients = <<>> /\ Truthy(bot)
                    THEN <<send_chat_message(
                             bot, [kind |-> "no_recipients"], TRUE)>>
                    ELSE <<>>
      IN  [swallowed |-> FALSE,
           calls |-> notice \o <<result>> \o
                     (IF result.ok /\ Truthy(bot)
                      THEN <<send_chat_message(
                               bot, [kind |-> "email_sent",
                                     recipients |-> recipients], TRUE)>>
                      ELSE <<>>)]

\* _handle_email_intent, likewise
handle_email_intent(intent, bot, summary, vfacts, env) ==
    IF ~GmailImportable \/ intent.details.kind = "bad"
    THEN [swallowed |-> intent.details.kind = "bad", calls |-> <<>>]
    ELSE
      LET recipients == intent.details.recipients
          result == send_email_summary(
                      recipients,
                      IF SummaryTruthy(summary) THEN SummaryText(summary)
                      ELSE <<"Meeting summary not yet available.">>,
                      vfacts, env)
      IN  IF recipients = <<>>
          THEN [swallowed |-> FALSE,
                calls |-> IF Truthy(bot)
                          THEN <<send_chat_message(
                                   bot, [kind |-> "no_recipients"], TRUE)>>
                          ELSE <<>>]
          ELSE [swallowed |-> FALSE,
                calls |-> <<result>> \o
                          (IF result.ok /\ Truthy(bot)
                           THEN <<send_chat_message(
                                    bot, [kind |-> "email_sent",
                                          recipients |-> recipients], TRUE)>>
                           ELSE <<>>)]

\* the confidence process_transcript reads: intent.get("confidence", "low")
confidence_of(intent) ==
    IF intent.confidence = NoneVal THEN "low" ELSE intent.confidence

\* retained, with everything but 'low' taken as confident
retained_unless_low(intent) == confidence_of(intent) # "low"

\* the test that retains an intent
retained(intent) == confidence_of(intent) \in {"high", "medium"}

\* One iteration of the loop over the detected intents: the external calls
\* it made and detected_intents after it.
process_intent(intent, bot, summary, vfacts, dintents, env) ==
    IF ~retained(intent)
    THEN [calls |-> <<>>, detected_intents |-> dintents, handler |-> "none"]
    ELSE [calls |->
            CASE intent.type = "schedule" ->
                   handle_schedule_intent(intent, bot, env).calls
              [] intent.type = "email" ->
                   handle_email_intent(intent, bot, summary, vfacts, env).calls
              [] OTHER -> <<>>,
          detected_intents |-> AppendRecord(dintents, intent),
          handler |-> IF intent.type \in {"schedule", "email"}
                      THEN intent.type ELSE "none"]

\* The posted content is modelled by the sequence of its parts: the final
\* summary's text, the section header, one line per fact.
Part(part, claim, status, text) ==
    [part |-> part, claim |-> claim, status |-> status, text |-> text]

NoText == [kind |-> "none", transcripts |-> <<>>, facts |-> <<>>]

\* the Verified Facts section with its header rendered unconditionally
facts_section_always(verified_facts) ==
    <<Part("header", "", "Verified Facts", NoText)>>
    \o [i \in 1..Len(verified_facts) |->
          Part("fact_line", verified_facts[i].claim,
               IF verified_facts[i].verification.verified THEN "VERIFIED"
               ELSE "NEEDS VERIFICATION",
               NoText)]

\* the line finalize_meeting renders for one verified fact
status_line(fact) ==
    Part("fact_line", fact.claim,
         IF fact.verification.verified THEN "VERIFIED"
         ELSE "NEEDS VERIFICATION",
         NoText)

\* the Verified Facts section finalize_meeting appends to the final summary
facts_section(verified_facts) ==
    IF verified_facts # <<>>
    THEN <<Part("header", "", "Verified Facts", NoText)>>
         \o [i \in 1..Len(verified_facts) |-> status_line(verified_facts[i])]
    ELSE <<>>

\* the content finalize_meeting hands to create_notion_page
summary_content(final_summary, verified_facts) ==
    <<Part("summary", "", "", final_summary)>> \o facts_section(verified_facts)

\* ------------------------------------------------------------------ state
VARIABLES
    current_agent,     \* the module's global: 0 is None, else the instance
    created,           \* how many VeriMeetAgent instances were constructed
    bot_id,            \* fields of the instance current_agent refers to
    transcripts,
    verified_facts,
    detected_intents,
    current_summary,
    pc,                \* where the operation in progress stands
    transcript,        \* process_transcript's argument
    facts,             \* its local list of detected facts
    intents,           \* its local list of detected intents
    idx,               \* the position of its running loop
    ext_calls,         \* the external calls the operation in progress made
    handled,           \* the intent handlers it invoked, with the intent's action
    result,            \* what the operation in progress hands to its caller
    segments,          \* history: the arguments of the process_transcript calls
    items_seen,        \* history: elements the language model has returned
    finalized,         \* history: finalize_meeting has been called
    probe,             \* a function evaluated on its own: name, argument, value
    active_connections, \* server.py's global list of accepted websockets
    sockets,           \* each websocket: new, open, closed by its client, gone
    tasks,             \* each webhook delivery: where its handler stands
    broadcasts,        \* history: the broadcast_message calls, per delivery
    completed          \* history: the last broadcast whose loop has ended

agent_vars ==
    <<current_agent, created, bot_id, transcripts, verified_facts,
      detected_intents, current_summary>>

frame_vars == <<transcript, facts, intents, idx>>

history_vars == <<segments, items_seen, finalized>>

log_vars == <<ext_calls, handled>>

server_vars == <<active_connections, sockets, tasks, broadcasts, completed>>

vars ==
    <<agent_vars, pc, frame_vars, log_vars, result, history_vars, probe,
      server_vars>>

\* no function is being evaluated on its own
NoProbe == [fn |-> "none", done |-> FALSE]

NoResult == [op |-> "none"]

Min(a, b) == IF a < b THEN a ELSE b

\* no agent yet and no operation in progress
NoAgent ==
    /\ current_agent = 0
    /\ created = 0
    /\ bot_id = NoneVal
    /\ transcripts = <<>>
    /\ verified_facts = <<>>
    /\ detected_intents = <<>>
    /\ current_summary = NoSummary
    /\ pc = "idle"
    /\ transcript = NoneVal
    /\ facts = <<>>
    /\ intents = <<>>
    /\ idx = 0
    /\ ext_calls = <<>>
    /\ handled = <<>>
    /\ result = NoResult
    /\ segments = <<>>
    /\ items_seen = 0
    /\ finalized = FALSE

\* ----------------------------------------------------- server.py's state
\* the transcript events delivered to /webhook/meetstream, all of them
\* pending at the start and handled in any order
MaxEvents == 2

Events == 1..MaxEvents

\* the websockets clients open on /ws
Clients == {"w1", "w2"}

Message(type, data) == [type |-> type, data |-> data]

NoMessage == Message("none", [none |-> TRUE])

\* a delivery whose request has not been read yet
NoTask ==
    [pc |-> "request", status |-> 0, text |-> "", bot_id |-> NoneVal,
     result |-> NoResult, stage |-> "transcript", pending |-> <<>>,
     message |-> NoMessage, it |-> 0, conn |-> NoneVal,
     disconnected |-> <<>>, sent_to |-> <<>>, stayed |-> {},
     new_facts |-> <<>>, new_intents |-> <<>>, summary |-> NoSummary]

NoBroadcast ==
    [event |-> 0, message |-> NoMessage, sent_to |-> <<>>, raised |-> <<>>,
     stayed |-> {}, registered |-> <<>>]

\* the server after start-up: no websocket accepted, no delivery handled
ServerIdle ==
    /\ active_connections = <<>>
    /\ sockets = [c \in Clients |-> "new"]
    /\ tasks = [e \in Events |-> NoTask]
    /\ broadcasts = [e \in Events |-> <<>>]
    /\ completed = NoBroadcast

\* VeriMeetAgent.__init__, and no agent yet
Init ==
    /\ NoAgent
    /\ probe = NoProbe
    /\ ServerIdle

\* get_or_create_agent constructing a fresh instance for each new bot id
must_create_per_bot(agent, b, bot) == agent = 0 \/ (Truthy(b) /\ bot # b)

\* ------------------------------------------------------- agent operations
\* the test of get_or_create_agent that constructs an instance
must_create(agent, b, bot) == agent = 0

\* the test of get_or_create_agent that calls set_bot_id
must_set_bot_id(agent, b, bot) == agent # 0 /\ Truthy(b) /\ bot # b

get_or_create_agent(b) ==
    /\ pc = "idle"
    /\ IF must_create(current_agent, b, bot_id)
       THEN /\ created' = created + 1
            /\ current_agent' = created + 1
            /\ bot_id' = b
            /\ transcripts' = <<>>
            /\ verified_facts' = <<>>
            /\ detected_intents' = <<>>
            /\ current_summary' = NoSummary
       ELSE /\ bot_id' = IF must_set_bot_id(current_agent, b, bot_id)
                         THEN b ELSE bot_id
            /\ UNCHANGED <<created, current_agent, transcripts,
                           verified_facts, detected_intents, current_summary>>
    /\ UNCHANGED <<server_vars, probe, pc, frame_vars, log_vars, result,
                   history_vars>>

set_bot_id(b) ==
    /\ pc = "idle"
    /\ current_agent # 0
    /\ bot_id' = b
    /\ UNCHANGED <<server_vars, probe,
                   created, current_agent, transcripts, verified_facts,
                   detected_intents, current_summary, pc, frame_vars,
                   log_vars, result, history_vars>>

\* what get_current_summary returns
current_summary_text(summary) ==
    IF SummaryTruthy(summary) THEN SummaryText(summary)
    ELSE <<"No summary yet.">>

\* get_current_summary reads the summary and changes nothing
get_current_summary ==
    /\ pc = "idle"
    /\ current_agent # 0
    /\ current_summary_text(current_summary) # <<>>
    /\ UNCHANGED vars

\* process_transcript with a terminal guard: no segment once finalized
accepts_segment_until_finalized(agent, fin) == agent # 0 /\ ~fin

\* what process_transcript asks before it takes a segment: an instance to
\* run on, and nothing about finalization
accepts_segment(agent, fin) == agent # 0

\* process_transcript's first statement with the new segment put in front
PrependSegment(list, text) == <<text>> \o list

\* what process_transcript's first statement does to the transcript list
AppendSegment(list, text) == Append(list, text)

\* process_transcript, lines 46-51: append the segment, detect the facts
process_transcript_begin ==
    /\ pc = "idle"
    /\ accepts_segment(current_agent, finalized)
    /\ Len(segments) < MaxSegments
    /\ \E shape \in PayloadShapes :
       \E n \in 0..(IF shape \in ListShapes
                    THEN Min(MaxLen, MaxItems - items_seen) ELSE 0) :
       \E f \in [1..n -> FactShapes] :
          LET payload == [shape |-> shape,
                          items |-> [i \in 1..n |->
                                       MkFact(f[i], items_seen + i)]]
          IN  /\ facts' = detect_factual_statements(payload)
              /\ ext_calls' = <<Call("detect_factual_statements",
                                     [text |-> SegmentText(Len(segments) + 1)],
                                     shape # "raise")>>
              /\ items_seen' = items_seen + n
    /\ transcripts' = AppendSegment(transcripts, SegmentText(Len(segments) + 1))
    /\ transcript' = SegmentText(Len(segments) + 1)
    /\ segments' = Append(segments, SegmentText(Len(segments) + 1))
    /\ intents' = <<>>
    /\ idx' = 1
    /\ pc' = "facts"
    /\ handled' = <<>>
    /\ result' = NoResult
    /\ UNCHANGED <<server_vars, probe,
                   current_agent, created, bot_id, verified_facts,
                   detected_intents, current_summary, finalized>>

\* process_transcript, lines 54-81: one iteration of the loop over the facts
process_transcript_fact ==
    /\ pc = "facts"
    /\ idx <= Len(facts)
    /\ \E v \in VerifyOutcomes, chat_ok \in BOOLEAN :
          LET r == check_fact(facts[idx], bot_id, verified_facts, v, chat_ok)
          IN  /\ verified_facts' = r.verified_facts
              /\ ext_calls' = ext_calls \o r.calls
              /\ pc' = IF r.raised THEN "raised" ELSE "facts"
              /\ idx' = IF r.raised THEN idx ELSE idx + 1
              /\ result' = IF r.raised
                           THEN [op |-> "process_transcript",
                                 raised |-> "AttributeError"]
                           ELSE result
    /\ UNCHANGED <<server_vars, probe,
                   current_agent, created, bot_id, transcripts,
                   detected_intents, current_summary, transcript, facts,
                   intents, handled, history_vars>>

\* process_transcript, lines 84-85: detect the intents, with the rolling
\* summary as context
process_transcript_intents ==
    /\ pc = "facts"
    /\ idx > Len(facts)
    /\ \E shape \in PayloadShapes :
       \E n \in 0..(IF shape \in ListShapes
                    THEN Min(MaxLen, MaxItems - items_seen) ELSE 0) :
       \E f \in [1..n -> IntentShapes] :
          LET payload == [shape |-> shape,
                          items |-> [i \in 1..n |->
                                       MkIntent(f[i], items_seen + i)]]
          IN  /\ \E today \in RunDays :
                    intents' = detect_intents(payload, today)
              /\ ext_calls' = Append(ext_calls,
                                Call("detect_intents",
                                     [text |-> transcript,
                                      context |-> current_summary],
                                     shape # "raise"))
              /\ items_seen' = items_seen + n
    /\ idx' = 1
    /\ pc' = "intents"
    /\ UNCHANGED <<server_vars, probe,
                   agent_vars, transcript, facts, handled, result, segments,
                   finalized>>

\* process_transcript, lines 88-103: one iteration of the loop over the
\* intents
process_transcript_intent ==
    /\ pc = "intents"
    /\ idx <= Len(intents)
    /\ \E env \in ExtEnv :
          LET r == process_intent(intents[idx], bot_id, current_summary,
                                  verified_facts, detected_intents, env)
          IN  /\ detected_intents' = r.detected_intents
              /\ ext_calls' = ext_calls \o r.calls
              /\ handled' = IF r.handler = "none" THEN handled
                            ELSE Append(handled,
                                        [handler |-> r.handler,
                                         action |-> intents[idx].action])
    /\ idx' = idx + 1
    /\ UNCHANGED <<server_vars, probe,
                   current_agent, created, bot_id, transcripts,
                   verified_facts, current_summary, pc, transcript, facts,
                   intents, result, history_vars>>

\* the result mapping with intents_detected counting the retained intents
process_transcript_result_retained(fs, vfacts, ins, summary) ==
    [op |-> "process_transcript", raised |-> NoneVal,
     facts_detected |-> Len(fs),
     facts_verified |-> Len(vfacts),
     intents_detected |-> Cardinality({i \in 1..Len(ins) : retained(ins[i])}),
     summary_length |-> SummaryLength(summary)]

\* the mapping process_transcript returns, lines 112-117
process_transcript_result(fs, vfacts, ins, summary) ==
    [op |-> "process_transcript", raised |-> NoneVal,
     facts_detected |-> Len(fs),
     facts_verified |-> Len(vfacts),
     intents_detected |-> Len(ins),
     summary_length |-> SummaryLength(summary)]

\* process_transcript, lines 106-117: update the rolling summary and build
\* the result
process_transcript_summary ==
    /\ pc = "intents"
    /\ idx > Len(intents)
    /\ \E ok \in BOOLEAN :
          /\ current_summary' = summarize(transcript, current_summary, ok)
          /\ ext_calls' = Append(ext_calls,
                            Call("summarize",
                                 [transcript |-> transcript,
                                  previous_summary |-> current_summary], ok))
    /\ result' = process_transcript_result(facts, verified_facts, intents,
                                           current_summary')
    /\ pc' = "returned"
    /\ UNCHANGED <<server_vars, probe,
                   current_agent, created, bot_id, transcripts,
                   verified_facts, detected_intents, frame_vars, handled,
                   history_vars>>

\* the length of a final summary's text, in the model's units
FinalSummaryLength(fs) ==
    IF fs.kind = "final" THEN 1 + Len(fs.transcripts) + Len(fs.facts) ELSE 1

\* what create_notion_page returns: success with the page's url, or
\* failure with an error and no url
create_notion_page(title, content, ok) ==
    [success |-> ok,
     url |-> IF ok THEN "https://notion/p" ELSE NoneVal]

\* the result mapping with summary_length taken from the posted content
finalize_meeting_result_content(title, notion_result, fs, vfacts, ts) ==
    [op |-> "finalize_meeting",
     arg |-> title,
     success |-> notion_result.success,
     notion_url |-> notion_result.url,
     summary_length |-> FinalSummaryLength(fs) + Len(facts_section(vfacts)),
     facts_verified |-> Len(vfacts),
     transcript_segments |-> Len(ts)]

\* the mapping finalize_meeting returns, lines 248-254
finalize_meeting_result(title, notion_result, fs, vfacts, ts) ==
    [op |-> "finalize_meeting",
     arg |-> title,
     success |-> notion_result.success,
     notion_url |-> notion_result.url,
     summary_length |-> FinalSummaryLength(fs),
     facts_verified |-> Len(vfacts),
     transcript_segments |-> Len(ts)]

finalize_meeting(meeting_title) ==
    /\ pc = "idle"
    /\ current_agent # 0
    /\ \E sum_ok \in BOOLEAN, notion_ok \in BOOLEAN :
          LET final_summary ==
                  finalize_summary(transcripts, verified_facts, sum_ok)
              title == IF Truthy(meeting_title) THEN meeting_title
                       ELSE "Meeting Summary - <now>"
              content == summary_content(final_summary, verified_facts)
          IN  /\ ext_calls' =
                    <<Call("finalize_summary",
                           [transcripts |-> transcripts,
                            verified_facts |-> verified_facts], sum_ok),
                      Call("create_notion_page",
                           [title |-> title, content |-> content],
                           notion_ok)>>
              /\ result' = finalize_meeting_result(
                               meeting_title,
                               create_notion_page(title, content, notion_ok),
                               final_summary, verified_facts, transcripts)
    /\ finalized' = TRUE
    /\ pc' = "called"
    /\ UNCHANGED <<server_vars, probe,
                   agent_vars, frame_vars, handled, segments, items_seen>>

\* the operation in progress hands its result to its caller, or its
\* exception reaches the caller
return_to_caller ==
    /\ pc \in {"called", "returned", "raised"}
    /\ pc' = "idle"
    /\ transcript' = NoneVal
    /\ facts' = <<>>
    /\ intents' = <<>>
    /\ idx' = 0
    /\ ext_calls' = <<>>
    /\ handled' = <<>>
    /\ result' = NoResult
    /\ UNCHANGED <<server_vars, probe, agent_vars, history_vars>>

Next ==
    \/ \E b \in BotIdArgs : get_or_create_agent(b)
    \/ \E b \in BotIdArgs : set_bot_id(b)
    \/ get_current_summary
    \/ process_transcript_begin
    \/ process_transcript_fact
    \/ process_transcript_intents
    \/ process_transcript_intent
    \/ process_transcript_summary
    \/ \E title \in Titles : finalize_meeting(title)
    \/ return_to_caller

Spec == Init /\ [][Next]_vars

\* ------------------------------------------- the functions on their own
\* The parsers and formatters are functions of their arguments alone; here
\* each is applied to an argument drawn at the start.
ToEval(fn, arg) == [fn |-> fn, arg |-> arg, done |-> FALSE]

Evaluated(p, value) == [fn |-> p.fn, arg |-> p.arg, done |-> TRUE,
                        value |-> value]

\* the lists of at most MaxLen detected facts
FactLists ==
    UNION {{[i \in 1..n |-> MkFact(f[i], i)] : f \in [1..n -> FactShapes]} :
             n \in 0..MaxLen}

\* the lists of at most MaxLen detected intents
IntentLists ==
    UNION {{[i \in 1..n |-> MkIntent(f[i], i)] :
               f \in [1..n -> IntentShapes]} : n \in 0..MaxLen}

\* the replies of the language model to the fact detector's prompt
FactPayloads ==
    {[shape |-> sh, items |-> items] :
        sh \in PayloadShapes, items \in FactLists}

\* the replies of the language model to the intent parser's prompt
IntentPayloads ==
    {[shape |-> sh, items |-> items] :
        sh \in PayloadShapes, items \in IntentLists}

\* the date texts parse_date is applied to, each on every day of the week
DateInputs ==
    {[text |-> DateText(ws), words |-> ws, today |-> today] :
        ws \in WordLists, today \in Weekdays}

\* the details _parse_datetime is applied to, each on every day of the
\* week: date texts with and without a keyword, time texts with and without
\* the pattern, and the empty texts of a missing key
DatetimeInputs ==
    {[details |-> Details("obj", "review", d.text, t.text, FALSE, <<>>),
      today |-> today, keyword |-> d.keyword, pattern |-> t.pattern] :
        d \in {[text |-> "", keyword |-> FALSE],
               [text |-> "on", keyword |-> FALSE],
               [text |-> "tomorrow", keyword |-> TRUE],
               [text |-> "next week", keyword |-> TRUE],
               [text |-> "on Friday", keyword |-> TRUE]},
        t \in {[text |-> "", pattern |-> FALSE],
               [text |-> "noon", pattern |-> FALSE],
               [text |-> "2pm", pattern |-> TRUE],
               [text |-> "12:30 AM", pattern |-> TRUE]},
        today \in Weekdays}

\* the verification results format_fact_check_message is applied to
SourceLists ==
    UNION {[1..n -> {Source(t, len, u) :
                        t \in {"T1", "T2"},
                        len \in {0, 149, 150, 151, 400},
                        u \in {"", "https://s/1"}}] : n \in 0..MaxLen}

VerificationInputs ==
    [success : BOOLEAN, verified : BOOLEAN,
     confidence : {"low", "high", NoneVal},
     sources : SourceLists, error : {"search failed", NoneVal}]

\* the time texts parse_time is applied to: the texts of the form
\* hour[:minute][am|pm], a text without a time, the empty text
TimeInputs ==
    {[text |-> e.text, formed |-> TRUE, parts |-> e.parts] : e \in TimeTable}
    \cup {[text |-> t, formed |-> FALSE,
           parts |-> [hour |-> 0, has_minute |-> FALSE, minute |-> 0,
                      ptext |-> ""]] : t \in {"noon", ""}}

ProbeInputs ==
    {ToEval("detect_factual_statements", p) : p \in FactPayloads}
    \cup {ToEval("detect_intents", p) : p \in IntentPayloads}
    \cup {ToEval("parse_time", t) : t \in TimeInputs}
    \cup {ToEval("parse_date", d) : d \in DateInputs}
    \cup {ToEval("parse_datetime", d) : d \in DatetimeInputs}
    \cup {ToEval("format_fact_check_message", [claim |-> ClaimText(1), v |-> v]) :
            v \in VerificationInputs}

FnInit ==
    /\ NoAgent
    /\ probe \in ProbeInputs
    /\ ServerIdle

eval_detect_factual_statements ==
    /\ probe.fn = "detect_factual_statements"
    /\ ~probe.done
    /\ probe' = Evaluated(probe, detect_factual_statements(probe.arg))
    /\ UNCHANGED <<agent_vars, pc, frame_vars, log_vars, result, history_vars,
                   server_vars>>

eval_detect_intents ==
    /\ probe.fn = "detect_intents"
    /\ ~probe.done
    /\ \E today \in RunDays :
          probe' = Evaluated(probe, detect_intents(probe.arg, today))
    /\ UNCHANGED <<agent_vars, pc, frame_vars, log_vars, result, history_vars,
                   server_vars>>

eval_parse_time ==
    /\ probe.fn = "parse_time"
    /\ ~probe.done
    /\ probe' = Evaluated(probe, parse_time(probe.arg.text))
    /\ UNCHANGED <<agent_vars, pc, frame_vars, log_vars, result, history_vars,
                   server_vars>>

eval_parse_date ==
    /\ probe.fn = "parse_date"
    /\ ~probe.done
    /\ probe' = Evaluated(probe, parse_date(probe.arg.text, probe.arg.today))
    /\ UNCHANGED <<agent_vars, pc, frame_vars, log_vars, result, history_vars,
                   server_vars>>

eval_parse_datetime ==
    /\ probe.fn = "parse_datetime"
    /\ ~probe.done
    /\ probe' = Evaluated(probe,
                          parse_datetime(probe.arg.details, probe.arg.today))
    /\ UNCHANGED <<agent_vars, pc, frame_vars, log_vars, result, history_vars,
                   server_vars>>

eval_format_fact_check_message ==
    /\ probe.fn = "format_fact_check_message"
    /\ ~probe.done
    /\ probe' = Evaluated(probe,
                          format_fact_check_message(probe.arg.claim,
                                                    probe.arg.v))
    /\ UNCHANGED <<agent_vars, pc, frame_vars, log_vars, result, history_vars,
                   server_vars>>

FnNext ==
    \/ eval_format_fact_check_message
    \/ eval_parse_datetime
    \/ eval_parse_date
    \/ eval_parse_time
    \/ eval_detect_factual_statements
    \/ eval_detect_intents

FnSpec == FnInit /\ [][FnNext]_vars

\* ------------------------------------------------------------- server.py
\* The handlers are coroutines on one event loop: a handler runs alone from
\* one await to the next, and at an await any other handler may run. The
\* awaits of the webhook handler are request.json() and, inside
\* broadcast_message, connection.send_text(); process_transcript is a plain
\* call and runs within one step.

\* the elements of a list
Elements(list) == {list[i] : i \in 1..Len(list)}

\* list[-n:] for n > 0
LastN(list, n) ==
    IF n >= Len(list) THEN list
    ELSE SubSeq(list, Len(list) - n + 1, Len(list))

\* list.remove(x) under `if x in list`
RemoveIfPresent(list, x) ==
    IF x \in Elements(list)
    THEN LET i == CHOOSE j \in 1..Len(list) :
                     /\ list[j] = x
                     /\ \A k \in 1..(j - 1) : list[k] # x
         IN  SubSeq(list, 1, i - 1) \o SubSeq(list, i + 1, Len(list))
    ELSE list

RECURSIVE RemoveEach(_, _)
\* broadcast_message, lines 40-42: remove the connections whose send raised
RemoveEach(list, disconnected) ==
    IF disconnected = <<>> THEN list
    ELSE RemoveEach(RemoveIfPresent(list, Head(disconnected)),
                    Tail(disconnected))

\* ---- what a delivery's body and the services' answers can be
EventBotIds == {"b1"}

EventFacts(e) ==
    {<<>>, <<MkFact("claim", e)>>, <<MkFact("nonobj", e)>>}

EventVerifications == {VerifyFailed, VerifyTopResult}

EventIntents(e) ==
    {<<>>}
    \cup {<<MkIntent(shape, e)>> :
            shape \in {q \in IntentShapes :
                         /\ q.obj
                         /\ q.type = "other"
                         /\ q.confidence \in {"high", "low"}}}

\* ---- process_transcript as one call
RECURSIVE verify_facts(_, _, _, _)
\* agent.py 54-81, the loop over the detected facts: whether it raised, and
\* verified_facts after it
verify_facts(fs, v, bot, vfacts) ==
    IF fs = <<>>
    THEN [raised |-> FALSE, verified_facts |-> vfacts]
    ELSE LET r == check_fact(Head(fs), bot, vfacts, v, TRUE)
         IN  IF r.raised
             THEN [raised |-> TRUE, verified_facts |-> r.verified_facts]
             ELSE verify_facts(Tail(fs), v, bot, r.verified_facts)

RECURSIVE handle_intents(_, _, _, _, _, _)
\* agent.py 88-103, the loop over the detected intents: detected_intents
\* after it
handle_intents(ins, bot, summary, vfacts, dintents, env) ==
    IF ins = <<>>
    THEN dintents
    ELSE handle_intents(
             Tail(ins), bot, summary, vfacts,
             process_intent(Head(ins), bot, summary, vfacts, dintents,
                            env).detected_intents,
             env)

\* agent.py 34-117 on the agent a: the agent's fields after the call and
\* what it returns, for the payloads the detectors got (fact_payload,
\* intent_payload), the verification result v, the adapters' environment
\* and the summarizer's success
process_transcript(a, text, fact_payload, v, intent_payload, env, sum_ok) ==
    LET bot == a.bot_id
        ts == a.transcripts
        dintents == a.detected_intents
        summary == a.current_summary
        fs == detect_factual_statements(fact_payload)
        f == verify_facts(fs, v, bot, a.verified_facts)
        ins == detect_intents(intent_payload, 0)
        di == handle_intents(ins, bot, summary, f.verified_facts, dintents,
                             env)
        cs == summarize(text, summary, sum_ok)
    IN  IF f.raised
        THEN [raised |-> TRUE,
              transcripts |-> AppendSegment(ts, text),
              verified_facts |-> f.verified_facts,
              detected_intents |-> dintents,
              current_summary |-> summary,
              result |-> [op |-> "process_transcript",
                          raised |-> "AttributeError"]]
        ELSE [raised |-> FALSE,
              transcripts |-> AppendSegment(ts, text),
              verified_facts |-> f.verified_facts,
              detected_intents |-> di,
              current_summary |-> cs,
              result |-> process_transcript_result(fs, f.verified_facts,
                                                   ins, cs)]

\* ---- the broadcasts of the webhook handler
\* a message the handler has still to broadcast, and where the handler
\* stands once it has: in which loop, with which elements of the loop's
\* slice still to come
Step(message, stage, pending) ==
    [message |-> message, stage |-> stage, pending |-> pending]

\* lines 83-84: the slice the loop over the facts runs on
FactsSlice(res, vfacts) ==
    IF res.facts_verified > 0 THEN LastN(vfacts, res.facts_verified)
    ELSE <<>>

\* lines 91-92: the slice the loop over the intents runs on
IntentsSlice(res, dintents) ==
    IF res.intents_detected > 0 THEN LastN(dintents, res.intents_detected)
    ELSE <<>>

FactSteps(items) ==
    [i \in 1..Len(items) |->
        Step(Message("fact", items[i]), "fact_loop",
             SubSeq(items, i + 1, Len(items)))]

IntentSteps(items) ==
    [i \in 1..Len(items) |->
        Step(Message("intent", items[i]), "intent_loop",
             SubSeq(items, i + 1, Len(items)))]

\* lines 99-103
SummarySteps(summary) ==
    IF SummaryTruthy(summary)
    THEN <<Step(Message("summary", [summary |-> summary]), "return", <<>>)>>
    ELSE <<>>

\* lines 77-103 from where the handler t stands, if no other handler ran
\* until its end: the broadcasts it would make, in order
Remaining(t, vfacts, dintents, summary) ==
    CASE t.stage = "transcript" ->
           <<Step(Message("transcript",
                          [text |-> t.text, bot_id |-> t.bot_id]),
                  "facts_if", <<>>)>>
           \o FactSteps(FactsSlice(t.result, vfacts))
           \o IntentSteps(IntentsSlice(t.result, dintents))
           \o SummarySteps(summary)
      [] t.stage = "facts_if" ->
           FactSteps(FactsSlice(t.result, vfacts))
           \o IntentSteps(IntentsSlice(t.result, dintents))
           \o SummarySteps(summary)
      [] t.stage = "fact_loop" ->
           FactSteps(t.pending)
           \o IntentSteps(IntentsSlice(t.result, dintents))
           \o SummarySteps(summary)
      [] t.stage = "intent_loop" ->
           IntentSteps(t.pending) \o SummarySteps(summary)
      [] OTHER -> <<>>

\* the handler t of delivery e runs on from where it stands until its next
\* send_text or its return: with no connection registered every
\* broadcast_message returns at once (line 29) and the handler runs to its
\* end; otherwise the next broadcast enters its loop (line 34) and waits in
\* the send to the first connection
run_handler(e, t, conns, socks, vfacts, dintents, summary, log) ==
    LET rem == Remaining(t, vfacts, dintents, summary)
    IN  IF rem = <<>> \/ conns = <<>>
        THEN [task |-> [t EXCEPT !.pc = "done", !.status = 200,
                                 !.stage = "return", !.pending = <<>>,
                                 !.message = NoMessage, !.it = 0,
                                 !.conn = NoneVal, !.disconnected = <<>>,
                                 !.sent_to = <<>>, !.stayed = {}],
              broadcasts |->
                  [log EXCEPT ![e] = @ \o [i \in 1..Len(rem) |->
                                              rem[i].message]]]
        ELSE [task |-> [t EXCEPT !.pc = "sending",
                                 !.stage = rem[1].stage,
                                 !.pending = rem[1].pending,
                                 !.message = rem[1].message,
                                 !.it = 1, !.conn = conns[1],
                                 !.disconnected = <<>>, !.sent_to = <<>>,
                                 !.stayed = {c \in Elements(conns) :
                                               socks[c] = "open"}],
              broadcasts |-> [log EXCEPT ![e] = Append(@, rem[1].message)]]

\* get_or_create_agent(bot_id=b) as the handler calls it: the agent's fields
\* after it
agent_for(b) ==
    IF must_create(current_agent, b, bot_id)
    THEN [current_agent |-> created + 1, created |-> created + 1,
          bot_id |-> b, transcripts |-> <<>>, verified_facts |-> <<>>,
          detected_intents |-> <<>>, current_summary |-> NoSummary]
    ELSE [current_agent |-> current_agent, created |-> created,
          bot_id |-> IF must_set_bot_id(current_agent, b, bot_id)
                     THEN b ELSE bot_id,
          transcripts |-> transcripts, verified_facts |-> verified_facts,
          detected_intents |-> detected_intents,
          current_summary |-> current_summary]

\* meetstream_webhook for a transcript event, lines 58-80: the body read, an
\* empty transcript is answered at once; otherwise the agent is fetched,
\* process_transcript runs, and the handler goes on to its broadcasts; an
\* exception of process_transcript is answered with status 500 (126-128)
meetstream_webhook(e) ==
    /\ pc = "idle"
    /\ tasks[e].pc = "request"
    /\ \E text \in {"", SegmentText(e)} :
       \E b \in EventBotIds :
       \E fs \in EventFacts(e) :
       \E v \in EventVerifications :
       \E ins \in EventIntents(e) :
       \E sum_ok \in BOOLEAN :
          IF ~Truthy(text)
          THEN /\ tasks' = [tasks EXCEPT ![e].pc = "done", ![e].status = 200]
               /\ UNCHANGED <<agent_vars, broadcasts>>
          ELSE
            LET a == agent_for(b)
                r == process_transcript(
                         a, text, [shape |-> "object", items |-> fs], v,
                         [shape |-> "object", items |-> ins], "ok", sum_ok)
                t == [tasks[e] EXCEPT
                        !.text = text, !.bot_id = b, !.result = r.result,
                        !.new_facts =
                            SubSeq(r.verified_facts,
                                   Len(a.verified_facts) + 1,
                                   Len(r.verified_facts)),
                        !.new_intents =
                            SubSeq(r.detected_intents,
                                   Len(a.detected_intents) + 1,
                                   Len(r.detected_intents)),
                        !.summary = r.current_summary]
                h == run_handler(e, t, active_connections, sockets,
                                 r.verified_facts, r.detected_intents,
                                 r.current_summary, broadcasts)
            IN  /\ current_agent' = a.current_agent
                /\ created' = a.created
                /\ bot_id' = a.bot_id
                /\ transcripts' = r.transcripts
                /\ verified_facts' = r.verified_facts
                /\ detected_intents' = r.detected_intents
                /\ current_summary' = r.current_summary
                /\ IF r.raised
                   THEN /\ tasks' = [tasks EXCEPT ![e] =
                                       [t EXCEPT !.pc = "done",
                                                 !.status = 500]]
                        /\ UNCHANGED broadcasts
                   ELSE /\ tasks' = [tasks EXCEPT ![e] = h.task]
                        /\ broadcasts' = h.broadcasts
    /\ UNCHANGED <<pc, frame_vars, log_vars, result, history_vars, probe,
                   active_connections, sockets, completed>>

\* broadcast_message, lines 32-42, from the return of one send_text to the
\* next: the send to t.conn succeeded or raised (a closed socket raises);
\* the list iterator, which counts the elements it has handed out, hands out
\* the next element of active_connections as it is now, or the loop ends,
\* the connections whose send raised are removed, and the handler runs on
broadcast_message(e) ==
    /\ tasks[e].pc = "sending"
    /\ LET t == tasks[e]
           sent == sockets[t.conn] = "open"
           u == [t EXCEPT
                   !.sent_to = IF sent THEN Append(@, t.conn) ELSE @,
                   !.disconnected = IF sent THEN @ ELSE Append(@, t.conn)]
       IN  IF t.it < Len(active_connections)
           THEN /\ tasks' = [tasks EXCEPT ![e] =
                               [u EXCEPT !.it = t.it + 1,
                                         !.conn = active_connections[t.it + 1]]]
                /\ UNCHANGED <<active_connections, broadcasts, completed>>
           ELSE
             LET conns == RemoveEach(active_connections, u.disconnected)
                 h == run_handler(e, u, conns, sockets, verified_facts,
                                  detected_intents, current_summary,
                                  broadcasts)
             IN  /\ active_connections' = conns
                 /\ completed' = [event |-> e, message |-> t.message,
                                  sent_to |-> u.sent_to,
                                  raised |-> u.disconnected,
                                  stayed |-> t.stayed,
                                  registered |-> conns]
                 /\ tasks' = [tasks EXCEPT ![e] = h.task]
                 /\ broadcasts' = h.broadcasts
    /\ UNCHANGED <<agent_vars, pc, frame_vars, log_vars, result,
                   history_vars, probe, sockets>>

\* websocket_endpoint, lines 203-205: accept the socket and register it
websocket_endpoint(c) ==
    /\ sockets[c] = "new"
    /\ sockets' = [sockets EXCEPT ![c] = "open"]
    /\ active_connections' = Append(active_connections, c)
    /\ UNCHANGED <<agent_vars, pc, frame_vars, log_vars, result,
                   history_vars, probe, tasks, broadcasts, completed>>

\* the client of an open socket goes away; the endpoint, waiting in
\* receive_text, has not run yet
client_disconnects(c) ==
    /\ sockets[c] = "open"
    /\ sockets' = [sockets EXCEPT ![c] = "closed"]
    /\ tasks' = [e \in Events |-> [tasks[e] EXCEPT !.stayed = @ \ {c}]]
    /\ UNCHANGED <<agent_vars, pc, frame_vars, log_vars, result,
                   history_vars, probe, active_connections, broadcasts,
                   completed>>

\* websocket_endpoint, lines 222-231: receive_text raised, the socket is
\* removed from the list if it is still there
websocket_endpoint_cleanup(c) ==
    /\ sockets[c] = "closed"
    /\ sockets' = [sockets EXCEPT ![c] = "gone"]
    /\ active_connections' = RemoveIfPresent(active_connections, c)
    /\ UNCHANGED <<agent_vars, pc, frame_vars, log_vars, result,
                   history_vars, probe, tasks, broadcasts, completed>>

ServerNext ==
    \/ \E e \in Events : meetstream_webhook(e)
    \/ \E e \in Events : broadcast_message(e)
    \/ \E c \in Clients : websocket_endpoint(c)
    \/ \E c \in Clients : client_disconnects(c)
    \/ \E c \in Clients : websocket_endpoint_cleanup(c)

\* two deliveries handled concurrently while one client comes and goes
WebhookClients == {"w1"}

WebhookInit ==
    /\ NoAgent
    /\ probe = NoProbe
    /\ active_connections = <<>>
    /\ sockets = [c \in Clients |->
                    IF c \in WebhookClients THEN "new" ELSE "gone"]
    /\ tasks = [e \in Events |-> NoTask]
    /\ broadcasts = [e \in Events |-> <<>>]
    /\ completed = NoBroadcast

WebhookSpec == WebhookInit /\ [][ServerNext]_vars

\* one delivery handled while all the clients come and go
BroadcastEvents == {1}

BroadcastInit ==
    /\ NoAgent
    /\ probe = NoProbe
    /\ active_connections = <<>>
    /\ sockets = [c \in Clients |-> "new"]
    /\ tasks = [e \in Events |->
                  IF e \in BroadcastEvents THEN NoTask
                  ELSE [NoTask EXCEPT !.pc = "done", !.status = 200]]
    /\ broadcasts = [e \in Events |-> <<>>]
    /\ completed = NoBroadcast

BroadcastSpec == BroadcastInit /\ [][ServerNext]_vars

\* ------------------------------------------------------------ properties
IsPrefix(a, b) == Len(a) <= Len(b) /\ SubSeq(b, 1, Len(a)) = a

\* the external calls a step added to the log
NewCalls == SubSeq(ext_calls', Len(ext_calls) + 1, Len(ext_calls'))

\* a step of the loop over the facts, on the element facts[idx]
FactStep == pc = "facts" /\ idx <= Len(facts) /\ pc' # "idle"

\* a step of the loop over the intents, on the element intents[idx]
IntentStep == pc = "intents" /\ idx <= Len(intents) /\ idx' = idx + 1

\* C1: a record enters verified_facts only in the step that handled a
\* detected fact with a non-empty claim whose verify_fact result reported
\* success, and it enters whether the chat post succeeded, failed or was
\* skipped for lack of a bot id; a failed verification records nothing; the
\* list only grows by appending, no record is removed or modified.
C1_RecordedExactlyOnVerifySuccess ==
    [][/\ IsPrefix(verified_facts, verified_facts')
       /\ Len(verified_facts') <= Len(verified_facts) + 1
       /\ verified_facts' # verified_facts =>
            /\ FactStep
            /\ facts[idx].obj
            /\ facts[idx].claim # ""
            /\ NewCalls # <<>>
            /\ NewCalls[1].fn = "verify_fact"
            /\ NewCalls[1].a.claim = facts[idx].claim
            /\ NewCalls[1].a.result.success
            /\ verified_facts'[Len(verified_facts')] =
                 [claim |-> facts[idx].claim, context |-> facts[idx].context,
                  verification |-> NewCalls[1].a.result]
       /\ (FactStep /\ NewCalls # <<>>) =>
            /\ NewCalls[1].fn = "verify_fact"
            /\ NewCalls[1].a.result.success =>
                 /\ Len(verified_facts') = Len(verified_facts) + 1
                 /\ IF bot_id \in BotIds
                    THEN Len(NewCalls) = 2
                         /\ NewCalls[2].fn = "send_chat_message"
                    ELSE Len(NewCalls) = 1
            /\ ~NewCalls[1].a.result.success =>
                 verified_facts' = verified_facts
      ]_vars

\* C1 witness: a fact is recorded although its chat post failed
C1_Witness ==
    /\ pc = "facts"
    /\ idx = 2
    /\ Len(ext_calls) = 3
    /\ ext_calls[3].fn = "send_chat_message"
    /\ ~ext_calls[3].ok
    /\ verified_facts # <<>>
    /\ verified_facts[Len(verified_facts)].claim = facts[1].claim

\* C2: no exception propagates out of process_transcript or finalize_meeting
\* to the caller, whatever the external calls answer.
C2_NoExceptionReachesCaller == pc # "raised"

\* the intent a step of the loop over the intents handles
ThisIntent == intents[idx]

\* C3 as stated: an intent is stored and dispatched to a handler if and only
\* if its confidence is 'high' or 'medium'.
C3_StoredAndDispatchedIffConfident ==
    [][IntentStep =>
         ((/\ detected_intents' = Append(detected_intents, ThisIntent)
           /\ Len(handled') = Len(handled) + 1)
          <=> ThisIntent.confidence \in {"high", "medium"})
      ]_vars

\* C3 amended: an intent is appended to detected_intents if and only if its
\* confidence is 'high' or 'medium'; it is dispatched to a handler if and
\* only if, in addition, its type is 'schedule' or 'email'; an intent whose
\* confidence is 'low', missing or any other value is not stored and
\* triggers no calendar, email or chat call.
C3_StoredIffConfident ==
    [][IntentStep =>
         /\ IF ThisIntent.confidence \in {"high", "medium"}
            THEN detected_intents' = Append(detected_intents, ThisIntent)
            ELSE detected_intents' = detected_intents
                 /\ NewCalls = <<>>
                 /\ handled' = handled
         /\ IF /\ ThisIntent.confidence \in {"high", "medium"}
               /\ ThisIntent.type \in {"schedule", "email"}
            THEN handled' = Append(handled, [handler |-> ThisIntent.type,
                                             action |-> ThisIntent.action])
            ELSE handled' = handled
      ]_vars

\* C3 witness: of two detected intents the first, an email request with
\* recipients and a confidence outside the three values, is dropped without
\* any call, and the second, of medium confidence, is stored
C3_Witness ==
    /\ pc = "intents"
    /\ Len(intents) = 2
    /\ idx = 3
    /\ intents[1].confidence = "certain"
    /\ intents[1].type = "email"
    /\ intents[1].details.recipients # <<>>
    /\ intents[2].confidence = "medium"
    /\ intents[2].type = "schedule"
    /\ detected_intents = <<intents[2]>>
    /\ Len(handled) = 1
    /\ \A i \in 1..Len(ext_calls) : ext_calls[i].fn # "send_email_summary"

CountCalls(fn) == Cardinality({i \in 1..Len(ext_calls) : ext_calls[i].fn = fn})

\* C5: every process_transcript call invokes the summarizer exactly once, as
\* its last step, however many facts and intents were detected and whatever
\* the calendar and email adapters answered; for a segment without facts
\* and intents the call still updates the summary once and returns
\* facts_detected = 0 and intents_detected = 0.
C5_SummarizerOnceAsLastStep ==
    pc \in {"returned", "raised"} =>
        /\ CountCalls("summarize") = 1
        /\ ext_calls[Len(ext_calls)].fn = "summarize"
        /\ ext_calls[Len(ext_calls)].a.transcript = transcript
        /\ (pc = "returned" /\ facts = <<>> /\ intents = <<>>) =>
              /\ result.facts_detected = 0
              /\ result.intents_detected = 0

\* C6: verified_facts and detected_intents are ordered by detection: the
\* records of one segment stand in the order the detector returned their
\* sources, and the records of an earlier segment precede those of a later
\* one (the k-th element detected in a run carries the text numbered k).
C6_StoredInDetectionOrder ==
    /\ \A i, j \in 1..Len(verified_facts) :
          i < j => TagOf(verified_facts[i].claim) < TagOf(verified_facts[j].claim)
    /\ \A i, j \in 1..Len(detected_intents) :
          i < j => TagOf(detected_intents[i].action)
                     < TagOf(detected_intents[j].action)
    /\ \A i \in 1..Len(verified_facts) : TagOf(verified_facts[i].claim) > 0
    /\ \A i \in 1..Len(detected_intents) : TagOf(detected_intents[i].action) > 0

\* C6 witness: two verified facts are stored, the first from the first
\* segment and the second from the second segment
C6_Witness ==
    /\ Len(segments) = 2
    /\ pc = "facts"
    /\ Len(facts) = 1
    /\ idx = 2
    /\ Len(verified_facts) = 2
    /\ verified_facts[2].claim = facts[1].claim

\* C7 as stated: once finalize_meeting has been called, a later
\* process_transcript call no longer mutates transcripts, verified_facts,
\* detected_intents or current_summary.
C7_FinalizedSessionIsFrozen ==
    [][finalized =>
         UNCHANGED <<transcripts, verified_facts, detected_intents,
                     current_summary>>]_vars

\* C7 amended: finalize_meeting itself changes none of bot_id, transcripts,
\* verified_facts, detected_intents and current_summary, and the session
\* stays queryable; it installs no terminal guard: process_transcript is
\* still accepted afterwards and appends its segment to transcripts as
\* before.
C7_FinalizeInstallsNoGuard ==
    [][/\ (\E title \in Titles : finalize_meeting(title)) =>
             /\ finalized'
             /\ UNCHANGED agent_vars
       /\ (finalized /\ pc = "idle") =>
             /\ ENABLED get_current_summary
             /\ Len(segments) < MaxSegments => ENABLED process_transcript_begin
       /\ (finalized /\ pc = "idle" /\ pc' = "facts") =>
             /\ transcripts' = Append(transcripts, transcript')
             /\ UNCHANGED <<verified_facts, detected_intents, current_summary>>
      ]_vars

\* C7 witness: a segment taken after finalize_meeting has been processed to
\* its end and has changed transcripts, verified_facts and current_summary
C7_Witness ==
    /\ finalized
    /\ Len(segments) = 1
    /\ pc = "returned"
    /\ transcripts = <<SegmentText(1)>>
    /\ Len(verified_facts) = 1
    /\ current_summary.kind = "text"

C9_TranscriptsAreTheSegments ==
    /\ [](transcripts = segments)
    /\ [][IF pc = "idle" /\ pc' = "facts"
          THEN transcripts' = Append(transcripts, transcript')
          ELSE transcripts' = transcripts]_vars

\* C9 witness: two segments were processed, then the meeting was finalized
\* and the bot id changed; both segments are in transcripts, in call order
C9_Witness ==
    /\ pc = "idle"
    /\ finalized
    /\ bot_id = "b2"
    /\ Len(segments) = 2
    /\ transcripts = <<SegmentText(1), SegmentText(2)>>


\* the content finalize_meeting handed to create_notion_page
PostedContent == ext_calls[2].a.content

\* C10: the content finalize_meeting posts to the page-creation service
\* starts with the final summary the summarizer returned; with no verified
\* fact nothing follows it (no Verified Facts section); otherwise one
\* Verified Facts header follows and then exactly one line per verified
\* fact, in list order, with status VERIFIED if verification.verified and
\* NEEDS VERIFICATION otherwise.
C10_PostedContent ==
    pc = "called" =>
      /\ Len(ext_calls) = 2
      /\ ext_calls[2].fn = "create_notion_page"
      /\ PostedContent[1] =
            Part("summary", "", "",
                 finalize_summary(transcripts, verified_facts, ext_calls[1].ok))
      /\ \A i \in 2..Len(PostedContent) : PostedContent[i].part # "summary"
      /\ IF verified_facts = <<>>
         THEN Len(PostedContent) = 1
         ELSE /\ Len(PostedContent) = Len(verified_facts) + 2
              /\ PostedContent[2].part = "header"
              /\ \A i \in 1..Len(verified_facts) :
                    /\ PostedContent[i + 2].part = "fact_line"
                    /\ PostedContent[i + 2].claim = verified_facts[i].claim
                    /\ PostedContent[i + 2].status =
                          (IF verified_facts[i].verification.verified
                           THEN "VERIFIED" ELSE "NEEDS VERIFICATION")

\* C10 witness: a meeting is finalized with two verified facts, the first
\* one not verified and the second one verified
C10_Witness ==
    /\ pc = "called"
    /\ Len(verified_facts) = 2
    /\ ~verified_facts[1].verification.verified
    /\ verified_facts[2].verification.verified
    /\ Len(PostedContent) = 4

\* the empty case of C10: a meeting finalized with no verified fact posts
\* the final summary alone
C10_EmptyCase ==
    /\ pc = "called"
    /\ verified_facts = <<>>
    /\ Len(PostedContent) = 1


\* the calls of create_calendar_event among the calls a step added
NewCalendarCalls ==
    SelectSeq(NewCalls, LAMBDA c : c.fn = "create_calendar_event")

\* C11: for every retained schedule intent the handler invokes
\* create_calendar_event exactly once, with title = details.topic if
\* non-empty else the intent's action, date = details.date if non-empty else
\* the heuristic-parsed date, time = details.time if non-empty else the
\* heuristic-parsed time, also when the details carry neither date nor time
\* (parsed_datetime is null).
C11_ScheduleCreatesEventOnce ==
    [][(/\ IntentStep
        /\ ThisIntent.type = "schedule"
        /\ ThisIntent.confidence \in {"high", "medium"})
       => LET details == ThisIntent.details
          IN  /\ Len(NewCalendarCalls) = 1
              /\ NewCalendarCalls[1].a.title =
                    (IF details.topic # "" THEN details.topic
                     ELSE ThisIntent.action)
              /\ NewCalendarCalls[1].a.date =
                    (IF details.date # "" THEN details.date
                     ELSE parse_date(details.date, 0))
              /\ NewCalendarCalls[1].a.time =
                    (IF details.time # "" THEN details.time
                     ELSE parse_time(details.time))
      ]_vars


\* C12: detect_factual_statements never raises and returns a list: the
\* "facts" value of an object whose "facts" is a list, the payload itself
\* when it is a bare list, and the empty list for every other shape (no
\* "facts" key, "facts" not a list, a scalar), for unparseable text and for
\* a failed call.
C12_FactsListOrEmpty ==
    (probe.fn = "detect_factual_statements" /\ probe.done) =>
        probe.value = (IF probe.arg.shape \in {"object", "list"}
                       THEN probe.arg.items
                       ELSE <<>>)

\* C12 witness: a bare list of two elements, the first of them not an
\* object, was returned as it is
C12_Witness ==
    /\ probe.fn = "detect_factual_statements"
    /\ probe.done
    /\ probe.arg.shape = "list"
    /\ Len(probe.value) = 2
    /\ ~probe.value[1].obj
    /\ probe.value = probe.arg.items

\* C12 for the other shapes: an object whose "facts" is not a list gives []
C12_NotListCase ==
    /\ probe.fn = "detect_factual_statements"
    /\ probe.done
    /\ probe.arg.shape = "notlist"
    /\ probe.arg.items # <<>>
    /\ probe.value = <<>>


\* an intent as the language model gave it, before detect_intents added
\* parsed_datetime
AsGiven(intent) == [intent EXCEPT !.parsed_datetime = NoParsed]

\* C13: detect_intents accepts a bare list of intents and an object with an
\* "intents" key alike and returns those intents; any other shape, a parse
\* exception or a failed call gives the empty list.
C13_IntentsListOrEmpty ==
    (probe.fn = "detect_intents" /\ probe.done) =>
        IF probe.arg.shape \in {"object", "list"}
        THEN /\ Len(probe.value) = Len(probe.arg.items)
             /\ \A i \in 1..Len(probe.value) :
                   AsGiven(probe.value[i]) = probe.arg.items[i]
        ELSE probe.value = <<>>


\* the last entry of the log that is a call of fn
LastCall(fn) ==
    ext_calls[CHOOSE i \in 1..Len(ext_calls) :
                 /\ ext_calls[i].fn = fn
                 /\ \A j \in (i + 1)..Len(ext_calls) : ext_calls[j].fn # fn]

\* how many verify_fact calls of the operation in progress reported the
\* given success
CountVerifyCalls(succeeded) ==
    Cardinality({i \in 1..Len(ext_calls) :
                    /\ ext_calls[i].fn = "verify_fact"
                    /\ ext_calls[i].ok = succeeded})

\* C14: process_transcript returns facts_detected = the number of facts the
\* detector returned for this segment (also those with an empty claim or a
\* failed verification), facts_verified = the length of verified_facts of
\* the whole session, intents_detected = the number of intents the parser
\* returned for this segment (also those not retained), summary_length =
\* the length of the rolling summary after this call's update.
C14_ReturnedCounts ==
    pc = "returned" =>
        /\ result.facts_detected = Len(facts)
        /\ result.facts_detected >=
              CountVerifyCalls(TRUE) + CountVerifyCalls(FALSE)
        /\ result.facts_verified = Len(verified_facts)
        /\ result.facts_verified >= CountVerifyCalls(TRUE)
        /\ result.intents_detected = Len(intents)
        /\ result.summary_length = SummaryLength(current_summary)
        /\ current_summary =
              summarize(transcript, LastCall("summarize").a.previous_summary,
                        LastCall("summarize").ok)

\* C14 witness: the second call of a session returns; its segment had no
\* fact and one intent of low confidence, and an earlier segment had one
\* verified fact: facts_detected = 0, facts_verified = 1,
\* intents_detected = 1 with nothing retained
C14_Witness ==
    /\ pc = "returned"
    /\ Len(segments) = 2
    /\ result.facts_detected = 0
    /\ result.facts_verified = 1
    /\ result.intents_detected = 1
    /\ intents[1].confidence = "low"
    /\ detected_intents = <<>>
    /\ result.summary_length > 0

\* C14, facts that were not verified are counted as detected: a call that
\* detected two facts, one with an empty claim and one whose verification
\* failed, returns facts_detected = 2 and facts_verified = 0
C14_UnverifiedCounted ==
    /\ pc = "returned"
    /\ result.facts_detected = 2
    /\ result.facts_verified = 0
    /\ CountVerifyCalls(FALSE) = 1


\* C15: finalize_meeting invokes create_notion_page exactly once per call
\* and returns success and notion_url from that call's result (no url when
\* it failed), summary_length = the length of the final summary without the
\* facts section, facts_verified = Len(verified_facts),
\* transcript_segments = Len(transcripts); it leaves bot_id, transcripts,
\* verified_facts, detected_intents and current_summary unchanged.
C15_FinalizeResult ==
    /\ [](pc = "called" =>
            /\ CountCalls("create_notion_page") = 1
            /\ result.success = LastCall("create_notion_page").ok
            /\ result.notion_url =
                  create_notion_page(LastCall("create_notion_page").a.title,
                                     PostedContent,
                                     LastCall("create_notion_page").ok).url
            /\ result.success <=> result.notion_url # NoneVal
            /\ result.summary_length = FinalSummaryLength(PostedContent[1].text)
            /\ result.facts_verified = Len(verified_facts)
            /\ result.transcript_segments = Len(transcripts))
    /\ [][(\E title \in Titles : finalize_meeting(title)) =>
             /\ pc' = "called"
             /\ UNCHANGED <<bot_id, transcripts, verified_facts,
                            detected_intents, current_summary>>]_vars

\* C15 witness: a meeting of two segments and one verified fact is
\* finalized and the page is created: the returned summary_length is that
\* of the final summary, shorter than the posted content
C15_Witness ==
    /\ pc = "called"
    /\ result.success
    /\ result.notion_url # NoneVal
    /\ result.transcript_segments = 2
    /\ result.facts_verified = 1
    /\ Len(PostedContent) = 3
    /\ PostedContent[1].text.kind = "final"
    /\ result.summary_length = 4

\* C15, the service failing: the call still returns, with success false
\* and no url
C15_NotionFailed ==
    /\ pc = "called"
    /\ ~result.success
    /\ result.notion_url = NoneVal
    /\ result.transcript_segments = 1


\* C16: the time heuristic turns a matched 'hour[:minute][am|pm]' into the
\* 24-hour 'HH:MM', zero-padded: with 'pm' and an hour other than 12 the
\* hour is increased by 12, with 'am' and hour 12 it becomes 0, otherwise it
\* is unchanged, and a missing minute is 00; '2pm' gives '14:00', '12pm'
\* gives '12:00' and '12am' gives '00:00'.
C16_TimeTo24Hour ==
    (probe.fn = "parse_time" /\ probe.done /\ probe.arg.formed) =>
        LET parts == probe.arg.parts
            pm == parts.ptext \in {"pm", " PM"}
            am == parts.ptext \in {"am", " AM"}
            hour == IF pm /\ parts.hour # 12 THEN parts.hour + 12
                    ELSE IF am /\ parts.hour = 12 THEN 0
                    ELSE parts.hour
            minute == IF parts.has_minute THEN parts.minute ELSE 0
        IN  /\ probe.value =
                  (IF hour < 10 THEN "0" ELSE "") \o ToString(hour) \o ":"
                  \o (IF minute < 10 THEN "0" ELSE "") \o ToString(minute)
            /\ probe.arg.text = "2pm" => probe.value = "14:00"
            /\ probe.arg.text = "12pm" => probe.value = "12:00"
            /\ probe.arg.text = "12am" => probe.value = "00:00"
            /\ probe.arg.text = "2:30 PM" => probe.value = "14:30"

\* C16 witness: '12am' was resolved to '00:00'
C16_Witness ==
    /\ probe.fn = "parse_time"
    /\ probe.done
    /\ probe.arg.text = "12am"
    /\ probe.value = "00:00"

\* C16, the other two examples: '2pm' was resolved to '14:00'
C16_TwoPm ==
    /\ probe.fn = "parse_time"
    /\ probe.done
    /\ probe.arg.text = "2pm"
    /\ probe.value = "14:00"

\* C16: '12pm' was resolved to '12:00'
C16_Noon ==
    /\ probe.fn = "parse_time"
    /\ probe.done
    /\ probe.arg.text = "12pm"
    /\ probe.value = "12:00"


\* the date text under evaluation contains the keyword, in any case
DateHas(keyword) ==
    contains([i \in 1..Len(probe.arg.words) |-> Lower(probe.arg.words[i])],
             keyword)

\* the resolved date is a Monday 1 to 7 days ahead: today + (7 - weekday)
ResolvedNextMonday ==
    /\ probe.value = DayText(7 - probe.arg.today)
    /\ 7 - probe.arg.today \in 1..7
    /\ (probe.arg.today + (7 - probe.arg.today)) % 7 = 0

\* the resolved date is a Friday after today and at most 7 days ahead,
\* exactly 7 days ahead when today is a Friday
ResolvedNextFriday ==
    \E n \in 1..7 :
        /\ probe.value = DayText(n)
        /\ (probe.arg.today + n) % 7 = 4
        /\ n = 7 <=> probe.arg.today = 4

\* C17 as stated: on every weekday a date text containing 'tomorrow'
\* resolves to today + 1, one containing 'next week' to today + (7 -
\* weekday), a Monday 1 to 7 days ahead, and one containing 'friday' to a
\* Friday after today and at most 7 days ahead (+7 when today is Friday);
\* matching is case-insensitive.
C17_DateKeywords ==
    (probe.fn = "parse_date" /\ probe.done) =>
        /\ DateHas(<<"tomorrow">>) => probe.value = DayText(1)
        /\ DateHas(<<"next", "week">>) => ResolvedNextMonday
        /\ DateHas(<<"friday">>) => ResolvedNextFriday

\* C17 amended: the keywords are tried in the order 'tomorrow', 'next
\* week', 'friday' and the first one the text contains decides: with
\* 'tomorrow' the date is today + 1; else with 'next week' it is today +
\* (7 - weekday), a Monday 1 to 7 days ahead; else with 'friday' it is a
\* Friday after today and at most 7 days ahead (+7 when today is Friday);
\* matching is case-insensitive.
C17_DateKeywordsInOrder ==
    (probe.fn = "parse_date" /\ probe.done) =>
        /\ DateHas(<<"tomorrow">>) => probe.value = DayText(1)
        /\ (~DateHas(<<"tomorrow">>) /\ DateHas(<<"next", "week">>))
              => ResolvedNextMonday
        /\ (/\ ~DateHas(<<"tomorrow">>)
            /\ ~DateHas(<<"next", "week">>)
            /\ DateHas(<<"friday">>))
              => ResolvedNextFriday

\* C17 witness: on a Friday, 'on Friday' was resolved to the Friday a week
\* ahead
C17_Witness ==
    /\ probe.fn = "parse_date"
    /\ probe.done
    /\ probe.arg.text = "on Friday"
    /\ probe.arg.today = 4
    /\ probe.value = DayText(7)

\* C17, a text with two keywords: on a Wednesday 'Friday next week' was
\* resolved to the Monday 5 days ahead
C17_FridayNextWeek ==
    /\ probe.fn = "parse_date"
    /\ probe.done
    /\ probe.arg.text = "Friday next week"
    /\ probe.arg.today = 2
    /\ probe.value = DayText(5)


\* C18: the date/time heuristic returns null exactly when it resolved
\* neither a date nor a time: when details.date and details.time are both
\* absent or empty, and also when raw strings are present but no keyword
\* and no time pattern matched; whenever it resolved at least one of them
\* it returns a record that carries raw_date and raw_time unchanged.
C18_NullIffNothingResolved ==
    (probe.fn = "parse_datetime" /\ probe.done) =>
        /\ probe.value.kind = "none"
              <=> (~probe.arg.keyword /\ ~probe.arg.pattern)
        /\ (probe.arg.details.date = "" /\ probe.arg.details.time = "")
              => probe.value.kind = "none"
        /\ probe.value.kind # "none" =>
              /\ probe.value.kind = "dict"
              /\ probe.value.raw_date = probe.arg.details.date
              /\ probe.value.raw_time = probe.arg.details.time
              /\ probe.value.date # NoneVal <=> probe.arg.keyword
              /\ probe.value.time # NoneVal <=> probe.arg.pattern

\* C18 witness: raw strings are present ('on' and 'noon') but no keyword
\* and no time pattern matched: null was returned
C18_Witness ==
    /\ probe.fn = "parse_datetime"
    /\ probe.done
    /\ probe.arg.details.date = "on"
    /\ probe.arg.details.time = "noon"
    /\ probe.value.kind = "none"

\* C18, one of the two resolved: no date keyword and the time '2pm' give a
\* record with the raw strings, the time 14:00 and no date
C18_TimeOnly ==
    /\ probe.fn = "parse_datetime"
    /\ probe.done
    /\ probe.arg.details.date = "on"
    /\ probe.arg.details.time = "2pm"
    /\ probe.value.kind = "dict"
    /\ probe.value.raw_date = "on"
    /\ probe.value.raw_time = "2pm"
    /\ probe.value.time = "14:00"
    /\ probe.value.date = NoneVal


\* C19: format_fact_check_message, for a result with success=false, returns
\* the 'Unable to verify' message with the claim and the supplied error
\* text and neither status nor confidence label; for success=true it labels
\* the claim VERIFIED iff verified is true (NEEDS VERIFICATION otherwise)
\* with the confidence, and quotes only the first source: its title, its
\* snippet cut to 150 characters, and its URL only when non-empty; it
\* changes no state.
C19_FactCheckMessage ==
    /\ []((probe.fn = "format_fact_check_message" /\ probe.done) =>
            LET v == probe.arg.v
                m == probe.value
            IN  /\ m.claim = probe.arg.claim
                /\ ~v.success =>
                      /\ m.kind = "unable_to_verify"
                      /\ v.error # NoneVal => m.error = v.error
                      /\ m.status = NoneVal
                      /\ m.confidence = NoneVal
                      /\ ~m.source.present
                /\ v.success =>
                      /\ m.kind = "fact_check"
                      /\ m.status = "VERIFIED" <=> v.verified
                      /\ m.status = "NEEDS VERIFICATION" <=> ~v.verified
                      /\ v.confidence # NoneVal => m.confidence = v.confidence
                      /\ m.source.present <=> v.sources # <<>>
                      /\ v.sources # <<>> =>
                            /\ m.source.title = v.sources[1].title
                            /\ m.source.snippet <= 150
                            /\ m.source.snippet =
                                  Min(v.sources[1].snippet, 150)
                            /\ IF v.sources[1].url = ""
                               THEN m.source.url_line = NoneVal
                               ELSE m.source.url_line = v.sources[1].url)
    /\ [][probe' # probe =>
            UNCHANGED <<agent_vars, pc, frame_vars, log_vars, result,
                        history_vars>>]_vars

\* C19 witness: a verified result with two sources, the first with a
\* snippet of 400 characters and no url, gave a VERIFIED message quoting the
\* first source with 150 characters and no url line
C19_Witness ==
    /\ probe.fn = "format_fact_check_message"
    /\ probe.done
    /\ probe.arg.v.success
    /\ probe.arg.v.verified
    /\ Len(probe.arg.v.sources) = 2
    /\ probe.arg.v.sources[1].snippet = 400
    /\ probe.arg.v.sources[1].url = ""
    /\ probe.arg.v.sources[2].url # ""
    /\ probe.value.status = "VERIFIED"
    /\ probe.value.source.snippet = 150
    /\ probe.value.source.url_line = NoneVal

\* C19, the failure branch: a failed result with an error text gave the
\* 'Unable to verify' message with that text
C19_Unable ==
    /\ probe.fn = "format_fact_check_message"
    /\ probe.done
    /\ ~probe.arg.v.success
    /\ probe.arg.v.confidence = "high"
    /\ probe.value.kind = "unable_to_verify"
    /\ probe.value.error = "search failed"
    /\ probe.value.confidence = NoneVal


\* the step of process_transcript that updates the rolling summary and
\* returns
SummaryStep == pc = "intents" /\ pc' = "returned"

\* C20: current_summary is null exactly until the first process_transcript
\* call completes; only the summary step of process_transcript changes it,
\* assigning the summarizer's result for (new segment, previous summary);
\* set_bot_id, get_or_create_agent, get_current_summary, finalize_meeting
\* and the intent handlers never change it.
C20_SummaryOnlyBySummarizer ==
    /\ [](/\ segments = <<>> => current_summary = NoSummary
          /\ pc = "returned" => current_summary # NoSummary)
    /\ [][IF SummaryStep
          THEN /\ current_summary' # NoSummary
               /\ ext_calls'[Len(ext_calls')].fn = "summarize"
               /\ ext_calls'[Len(ext_calls')].a =
                     [transcript |-> transcript,
                      previous_summary |-> current_summary]
               /\ current_summary' =
                     summarize(transcript, current_summary,
                               ext_calls'[Len(ext_calls')].ok)
          ELSE current_summary' = current_summary]_vars

\* C20 witness: the first call has raised and the second has just
\* completed: the summary, null until now, is the summarizer's result for
\* the second segment
C20_Witness ==
    /\ pc = "returned"
    /\ Len(segments) = 2
    /\ LastCall("summarize").a.previous_summary = NoSummary
    /\ current_summary.kind = "text"
    /\ current_summary.of = <<SegmentText(2)>>

\* C20, the summary survives the other operations: after a completed call,
\* a new bot id and finalize_meeting the summary is still that of the call
C20_KeptByOtherOperations ==
    /\ pc = "called"
    /\ finalized
    /\ bot_id = "b2"
    /\ Len(segments) = 1
    /\ current_summary.kind = "text"
    /\ current_summary.of = <<SegmentText(1)>>

\* the chat posts among the external calls a step added to the log
NewChatPosts ==
    {i \in 1..Len(NewCalls) : NewCalls[i].fn = "send_chat_message"}

\* C21: send_chat_message is never invoked while bot_id is unset: every
\* step that posts to the chat (a fact-check result, a calendar
\* confirmation, an email confirmation, the recipients-needed notice) is
\* taken with a bot id set on the agent, and posts with that bot id; this
\* holds after any sequence of process_transcript, set_bot_id and
\* get_or_create_agent calls.
C21_NoChatWithoutBotId ==
    /\ [](\A i \in 1..Len(ext_calls) :
            ext_calls[i].fn = "send_chat_message" =>
              ext_calls[i].a.bot_id \in BotIds)
    /\ [][\A i \in NewChatPosts :
            /\ bot_id \in BotIds
            /\ NewCalls[i].a.bot_id = bot_id
            /\ NewCalls[i].a.message.kind \in
                 {"fact_check", "calendar_created", "email_sent",
                  "no_recipients"}
         ]_vars

\* the kinds of chat message in the log
ChatKinds ==
    {ext_calls[i].a.message.kind :
       i \in {j \in 1..Len(ext_calls) :
                ext_calls[j].fn = "send_chat_message"}}

\* a fact-check result and a handler's message posted by one call
C21_TwoPathsPosted ==
    /\ "fact_check" \in ChatKinds
    /\ ChatKinds \cap {"calendar_created", "email_sent", "no_recipients"} # {}

C21_CalendarConfirmationPosted == "calendar_created" \in ChatKinds

C21_EmailConfirmationPosted == "email_sent" \in ChatKinds

C21_NoticePosted == "no_recipients" \in ChatKinds

\* without a bot id a fact was verified and an event created, and nothing
\* was posted
C21_SilentWithoutBotId ==
    /\ bot_id \notin BotIds
    /\ ChatKinds = {}
    /\ verified_facts # <<>>
    /\ \E i \in 1..Len(ext_calls) :
         ext_calls[i].fn = "create_calendar_event" /\ ext_calls[i].ok

\* the adapter call a confirmation of the given kind answers
ConfirmedCall(kind) ==
    IF kind = "calendar_created" THEN "create_calendar_event"
    ELSE "send_email_summary"

\* C22: a confirmation ('Calendar event created', 'Email summary sent') is
\* posted only directly after the handler's calendar or email call returned
\* success; a call that reported failure (the token not configured, a bad
\* date or time, a failed request) is followed by no confirmation, a handler
\* that raised posts nothing, and in each case the loop goes on to the next
\* intent.
C22_ConfirmationOnlyOnSuccess ==
    [][/\ \A i \in NewChatPosts :
            NewCalls[i].a.message.kind \in {"calendar_created", "email_sent"}
            => /\ i > 1
               /\ NewCalls[i - 1].fn = ConfirmedCall(NewCalls[i].a.message.kind)
               /\ NewCalls[i - 1].ok
       /\ \A i \in 1..Len(NewCalls) :
            (/\ NewCalls[i].fn \in {"create_calendar_event",
                                    "send_email_summary"}
             /\ ~NewCalls[i].ok)
            => /\ Len(NewCalls) = i
               /\ pc' = "intents"
               /\ idx' = idx + 1
       /\ (pc = "intents" /\ idx <= Len(intents))
            => /\ pc' = "intents"
               /\ idx' = idx + 1
               /\ (/\ intents[idx].type = "schedule"
                   /\ retained(intents[idx])
                   /\ handle_schedule_intent(intents[idx], bot_id,
                                             "ok").swallowed)
                  => NewCalls = <<>>
      ]_vars

\* with a bot id set, a calendar call that reported failure was followed by
\* the handling of the next intent, whose email call was confirmed
C22_FailureThenNextIntent ==
    /\ bot_id \in BotIds
    /\ pc = "intents"
    /\ idx = 3
    /\ \E i \in 1..Len(ext_calls) :
         /\ ext_calls[i].fn = "create_calendar_event"
         /\ ~ext_calls[i].ok
         /\ i + 2 <= Len(ext_calls)
         /\ ext_calls[i + 1].fn = "send_email_summary"
         /\ ext_calls[i + 1].ok
         /\ ext_calls[i + 2].fn = "send_chat_message"
         /\ ext_calls[i + 2].a.message.kind = "email_sent"

\* process_transcript is running: between its first statement and its return
InCall == pc \in {"facts", "intents"}

\* what the email handler sends for a rolling summary
EmailSummaryOf(s) ==
    CASE s.kind = "none" -> <<"Meeting summary not yet available.">>
      [] s.kind = "failed" -> <<FailureMarker>>
      [] OTHER -> s.of

\* C23: while process_transcript handles segment n the rolling summary
\* stays as the calls before it left it, until the last step replaces it:
\* detect_intents receives that summary as context (null for the first
\* segment), an email triggered by segment n carries it (the placeholder
\* when there is none), and it never covers segment n itself; the summarizer
\* then receives the same summary as previous_summary.
C23_HandlersSeePreviousSummary ==
    [][/\ (pc = "idle" /\ pc' = "facts") =>
            current_summary' = current_summary
       /\ (InCall /\ pc' \in {"facts", "intents", "raised"}) =>
            current_summary' = current_summary
       /\ InCall =>
            /\ \A j \in 1..Len(current_summary.of) :
                 current_summary.of[j] # transcript
            /\ Len(segments) = 1 => current_summary = NoSummary
            /\ \A i \in 1..Len(NewCalls) :
                 /\ NewCalls[i].fn = "detect_intents" =>
                      /\ NewCalls[i].a.context = current_summary
                      /\ NewCalls[i].a.text = transcript
                 /\ NewCalls[i].fn = "send_email_summary" =>
                      NewCalls[i].a.summary = EmailSummaryOf(current_summary)
                 /\ NewCalls[i].fn = "summarize" =>
                      /\ NewCalls[i].a.previous_summary = current_summary
                      /\ NewCalls[i].a.transcript = transcript
      ]_vars

\* the call for the second segment sent an email carrying the summary of
\* the first segment alone, after detect_intents received that summary
C23_EmailCarriesPreviousSummary ==
    /\ InCall
    /\ Len(segments) = 2
    /\ current_summary = [kind |-> "text", of |-> <<SegmentText(1)>>]
    /\ \E i, j \in 1..Len(ext_calls) :
         /\ i < j
         /\ ext_calls[i].fn = "detect_intents"
         /\ ext_calls[i].a.context = current_summary
         /\ ext_calls[j].fn = "send_email_summary"
         /\ ext_calls[j].a.summary = <<SegmentText(1)>>

\* the call for the first segment sent an email with the placeholder
C23_FirstSegmentPlaceholder ==
    /\ InCall
    /\ Len(segments) = 1
    /\ \E j \in 1..Len(ext_calls) :
         /\ ext_calls[j].fn = "send_email_summary"
         /\ ext_calls[j].a.summary = <<"Meeting summary not yet available.">>

\* C26: a failure of the summarizer during process_transcript does not lose
\* the rolling summary: the failure-marker text is never stored as
\* current_summary, never passed as previous_summary to a later summarize
\* call, and never sent as the summary of an email.
C26_FailureMarkerNotStored ==
    /\ current_summary.kind # "failed"
    /\ \A i \in 1..Len(ext_calls) :
         /\ ext_calls[i].fn = "summarize" =>
              ext_calls[i].a.previous_summary.kind # "failed"
         /\ ext_calls[i].fn = "send_email_summary" =>
              ext_calls[i].a.summary # <<FailureMarker>>

\* the summary of the first segment was replaced by the failure text, which
\* the next call handed to the summarizer as previous_summary
C26_MarkerPassedOn ==
    \E i \in 1..Len(ext_calls) :
       /\ ext_calls[i].fn = "summarize"
       /\ ext_calls[i].a.previous_summary.kind = "failed"

\* the failure text was sent as the summary of an email
C26_MarkerEmailed ==
    \E i \in 1..Len(ext_calls) :
       /\ ext_calls[i].fn = "send_email_summary"
       /\ ext_calls[i].ok
       /\ ext_calls[i].a.summary = <<FailureMarker>>

\* what reaches the calendar call for a raw text of the details: the text
\* itself when it is non-empty, else nothing
RawOrNone(text) == IF text # "" THEN text ELSE NoneVal

ValidTimes == {Pad2(h) \o ":" \o Pad2(m) : h \in 0..23, m \in 0..59}

\* C28: whenever the heuristic produces a time it is a valid 24-hour time
\* (hour 00-23, minute 00-59), for every text made of a one or two digit
\* hour, an optional two-digit minute and an optional am/pm, '13pm', '0am',
\* '24' and '2:75' included.
C28_TimeIsValid24Hour ==
    (probe.fn = "parse_time" /\ probe.done /\ probe.value # NoneVal) =>
        probe.value \in ValidTimes

\* the texts of the claim and what the heuristic makes of them
C28_ThirteenPm ==
    probe.fn = "parse_time" /\ probe.done /\ probe.arg.text = "13pm"
    /\ probe.value = "25:00"

C28_TwentyFour ==
    probe.fn = "parse_time" /\ probe.done /\ probe.arg.text = "24"
    /\ probe.value = "24:00"

C28_MinuteSeventyFive ==
    probe.fn = "parse_time" /\ probe.done /\ probe.arg.text = "2:75"
    /\ probe.value = "02:75"

C28_ZeroAm ==
    probe.fn = "parse_time" /\ probe.done /\ probe.arg.text = "0am"
    /\ probe.value = "00:00"

\* the facts lines of the prompt finalize_summary built from the facts
\* finalize_meeting called it with
PromptLines == PromptFacts(ext_calls[1].a.verified_facts)

\* C29: in the prompt finalize_summary builds, the status rendered for each
\* verified fact agrees with the status finalize_meeting renders for that
\* fact in the posted page: it reflects verification.verified.
C29_PromptStatusAgreesWithPage ==
    (pc = "called" /\ verified_facts # <<>>) =>
        /\ Len(PromptLines) = Len(verified_facts)
        /\ \A i \in 1..Len(verified_facts) :
              /\ PromptLines[i].claim = PostedContent[i + 2].claim
              /\ PromptLines[i].status = PostedContent[i + 2].status

\* the step in which the handler of delivery e calls process_transcript
Processes(e) ==
    /\ tasks[e].pc = "request"
    /\ tasks'[e].pc # "request"
    /\ tasks'[e].text # ""

\* C24: webhook events are processed strictly one after another: when two
\* transcript events are delivered concurrently, the process_transcript
\* call of one never runs between the other's process_transcript call and
\* the end of the other's broadcasts.
C24_EventsOneAfterAnother ==
    [][\A e \in Events :
          Processes(e) => \A f \in Events \ {e} : tasks[f].pc # "sending"
      ]_vars

\* a delivery has returned after broadcasting a summary that is not the one
\* its own process_transcript call produced
C24_SummaryOfOtherEvent ==
    \E e \in Events :
       /\ tasks[e].pc = "done"
       /\ \E i \in 1..Len(broadcasts[e]) :
            /\ broadcasts[e][i].type = "summary"
            /\ broadcasts[e][i].data.summary # tasks[e].summary

\* a delivery has returned after broadcasting as a fact event a fact that
\* the other delivery's call verified after its own call had returned
C24_FactOfLaterEvent ==
    \E e \in Events :
       /\ tasks[e].pc = "done"
       /\ \E i \in 1..Len(broadcasts[e]) :
            /\ broadcasts[e][i].type = "fact"
            /\ broadcasts[e][i].data.claim \notin
                 {verified_facts[j].claim :
                    j \in 1..tasks[e].result.facts_verified}

\* the data of the messages of one type a delivery broadcast, in order
Broadcasted(e, type) ==
    LET of_type == SelectSeq(broadcasts[e], LAMBDA m : m.type = type)
    IN  [i \in 1..Len(of_type) |-> of_type[i].data]

\* C25: once the handler of a processed segment has returned, the 'fact'
\* events it broadcast are exactly the facts verified during that segment
\* and its 'intent' events exactly the intents retained during that
\* segment, so that over a session each is broadcast exactly once and a
\* segment that verified no new fact broadcasts no fact event.
C25_BroadcastsThisSegmentsItems ==
    \A e \in Events :
       (tasks[e].pc = "done" /\ tasks[e].status = 200 /\ tasks[e].text # "")
       => /\ Broadcasted(e, "fact") = tasks[e].new_facts
          /\ Broadcasted(e, "intent") = tasks[e].new_intents

\* with no client connected, so that the handlers ran one after another, a
\* segment that verified nothing broadcast the fact of the segment before
C25_FactBroadcastAgain ==
    /\ active_connections = <<>>
    /\ \A c \in Clients : sockets[c] \in {"new", "gone"}
    /\ \E e \in Events :
         /\ tasks[e].pc = "done"
         /\ tasks[e].new_facts = <<>>
         /\ Broadcasted(e, "fact") # <<>>

\* likewise a segment whose only intent was not retained broadcast the
\* intent of the segment before
C25_IntentBroadcastAgain ==
    /\ active_connections = <<>>
    /\ \A c \in Clients : sockets[c] \in {"new", "gone"}
    /\ \E e \in Events :
         /\ tasks[e].pc = "done"
         /\ tasks[e].new_intents = <<>>
         /\ Broadcasted(e, "intent") # <<>>

\* how often a connection occurs in a list
Occurrences(list, c) == Cardinality({i \in 1..Len(list) : list[i] = c})

\* of the last completed broadcast: each connection whose send raised is no
\* longer registered
C30_RaisedAreRemoved ==
    \A c \in Elements(completed.raised) :
       c \notin Elements(completed.registered)

\* C30: broadcast_message delivers to all connected clients under
\* interleaving: when a broadcast completes, every connection whose send
\* raised has been removed from active_connections, and every client that
\* stayed connected for the whole broadcast is still registered and has
\* received the message exactly once, even if other clients connected or
\* disconnected at the awaits of the loop.
C30_BroadcastReachesAllConnected ==
    completed.event # 0 =>
       /\ C30_RaisedAreRemoved
       /\ \A c \in completed.stayed :
             /\ c \in Elements(completed.registered)
             /\ Occurrences(completed.sent_to, c) = 1

====
